---- MODULE Spec2Model ----
(***************************************************************************)
(* Liveness-challenge state machine of the FlashBack identity flow.        *)
(*                                                                         *)
(* Part 1: EnhancedLivenessDetector (src/utils/enhancedLivenessDetection.ts)*)
(*   session, faceDataHistory and the wall clock read through Date.now().   *)
(*   One handler invocation reads one clock value (the handlers are         *)
(*   synchronous); the clock advances between invocations (Tick).           *)
(* Part 2: the screens of src/app and their navigation.                     *)
(* Part 3: LivenessDetector (src/unnamed/part_010), whose processFrame is   *)
(*   asynchronous: a call is suspended while the face metrics are extracted *)
(*   and other calls of the detector run in between.                        *)
(* Part 4: MLKitLivenessDetector (src/unnamed/part_011), blink challenges.  *)
(* Part 5: RealLivenessDetector (src/unnamed/part_011), whose challenges   *)
(*   are gestures on the device recorded between two clock readings.        *)
(***************************************************************************)
EXTENDS Integers, Sequences, FiniteSets, TLC

VARIABLES
    session,          \* EnhancedLivenessDetector.session (Null or a LivenessSession)
    faceDataHistory,  \* EnhancedLivenessDetector.faceDataHistory
    now,              \* Date.now(), in ms
    ret,              \* the most recent detector call and the value it returned (for
                      \* startSession also whether it replaced an active session,
                      \* for reset the state it was called in, for processFrame
                      \* the frame it analysed)
    ld,               \* the fields of the LivenessDetector object
    ldCalls,          \* LivenessDetector.processFrame calls suspended at their await
    ml,               \* the fields of the MLKitLivenessDetector object
    rl,               \* the fields of the RealLivenessDetector object
    faceBased,        \* FaceBasedLivenessDetector and the reducer state of its component
    stack,            \* the expo-router stack of routes, the shown screen last
    otpVerified,      \* OtpVerification: verifyOtp answered success and the token is stored
    navTimer,         \* OtpVerification: the setTimeout that pushes SelfieCapture is pending
    currentStep,      \* LivenessCheck.currentStep
    stepCompleted,    \* LivenessCheck.stepCompleted
    isProcessing,     \* LivenessCheck.isProcessing
    livenessScore,    \* LivenessCheck.livenessScore
    lcError,          \* LivenessCheck.error is set
    timers,           \* LivenessCheck: pending setTimeout callbacks with the state they captured
    dialog,           \* the Alert currently shown
    capturedImage,    \* SelfieCapture.capturedImage is set
    selfieCompleted   \* SecureStorage: storeSelfieCompleted(true) was called

enhVars == <<session, faceDataHistory>>
ldVars == <<ld, ldCalls>>
\* the detectors other than EnhancedLivenessDetector
otherDetectors == <<ld, ldCalls, ml, rl, faceBased>>
detVars == <<session, faceDataHistory, now, ret, ld, ldCalls, ml, rl, faceBased>>
lcVars == <<currentStep, stepCompleted, isProcessing, livenessScore, lcError, timers>>
appVars == <<stack, otpVerified, navTimer, currentStep, stepCompleted, isProcessing,
             livenessScore, lcError, timers, dialog, capturedImage, selfieCompleted>>
vars == <<session, faceDataHistory, now, ret, ld, ldCalls, ml, rl, faceBased, stack, otpVerified,
          navTimer, currentStep,
          stepCompleted, isProcessing, livenessScore, lcError, timers, dialog,
          capturedImage, selfieCompleted>>

----------------------------------------------------------------------------
(* Bounds of the explored behaviours *)

\* the clock is explored up to MaxTime ms
MaxTime == 8000
\* frames delivered for one blink challenge before its deadline
MaxBlinkFrames == 10
\* frames delivered for one head-turn challenge before its deadline
MaxTurnFrames == 5
\* routes kept on the navigation stack
MaxStack == 4
\* head yaw angles (degrees) the frame source reports
Yaws == {0, -35, 35}
\* changes of the shown frame within the frames the history holds
MaxChanges == 2
\* the clock is explored up to MaxLDTime ms while LivenessDetector is in use
MaxLDTime == 5000
\* frames one LivenessDetector session receives
MaxLDFrames == 20
\* LivenessDetector.processFrame calls suspended at the same time
MaxInFlight == 1
\* changes of the metrics within the frames of one LivenessDetector session
MaxLDChanges == 2
\* eye aspect ratios (hundredths) of open and of closed eyes
EarOpen == 25
EarClosed == 10
\* yaws and pitches (degrees) of the metrics: at rest, exactly the range threshold
\* and one degree more
LDYaws == {0, 30, 31}
LDPitches == {0, 20, 21}
\* changes of the shown frame within the frames a history of the long streams
\* of LivenessDetector and MLKitLivenessDetector holds
MaxStreamChanges == 1
\* the clock is followed until it has passed MaxLiveTime ms when frames and clock
\* readings never stop: later than the last deadline of a session started at 0
MaxLiveTime == 14000
\* face-detection callbacks that run before the detector's copy of the reducer
\* state is refreshed by updateState
MaxStale == 2
\* interactions, sensor samples or brightness samples one RealLivenessDetector
\* challenge records
MaxRecords == 4
\* the clock is explored up to MaxRLTime ms while RealLivenessDetector is in use
MaxRLTime == 5000
\* time (ms) between two recordings of RealLivenessDetector
RLTickStep == 1000
\* frames one MLKitLivenessDetector challenge receives
MaxMLFrames == 4
\* the clock is explored up to MaxMLTime ms while MLKitLivenessDetector is in use
MaxMLTime == 1200
\* time (ms) between two frames of MLKitLivenessDetector: the same clock reading,
\* one ms less than the shortest accepted blink, the longest accepted blink
MLGaps == {0, 99, 1000}
\* a pause (ms) longer than the timeout of a challenge
MLPause == 10001
\* requiredBlinks of a blink challenge (the default is 2)
MLRequiredBlinks == {1, 2}
\* eye-open probabilities (hundredths) of open, of closed and of half-open eyes
MLEyeOpen == 80
MLEyeClosed == 10
MLEyeHalf == 62
\* head turns (degrees) of the long stream: at rest, turned by exactly the
\* threshold and by one degree more
StreamTurns == {0, 25, 26}

----------------------------------------------------------------------------
(* Program constants *)

HISTORY_SIZE == 30
HEAD_TURN_THRESHOLD == 25
BlinkDuration == 5000
TurnDuration == 4000
MinBlinkFrames == 10
BlinkWindow == 10
MinDetectFrames == 6
MinTurnFrames == 5
BaselineFrames == 5
MinBaselineFrames == 3
ConfidenceNormDegrees == 45

\* LivenessDetector
FRAME_BUFFER_SIZE == 30
LD_BlinkDuration == 3000
LD_SmileDuration == 2500
LD_TurnDuration == 4000
LD_NodDuration == 3500
LD_BlinkThreshold == 700
LD_SmileThreshold == 600
LD_TurnThreshold == 500
LD_NodThreshold == 500
LD_BaselineFrames == 10
LD_EarFactorTenths == 7
LD_BlinkSequenceSize == 20
LD_HeadMovementsSize == 30
LD_MinHeadMovements == 10
LD_CycleConfidence == 300
LD_NaturalRateConfidence == 200
LD_YawRangeThreshold == 30
LD_YawNormDegrees == 60
LD_PitchRangeThreshold == 20
LD_PitchNormDegrees == 40

\* RealLivenessDetector
RL_TapDuration == 5000
RL_HoldDuration == 4000
RL_ShakeDuration == 3000
RL_BrightnessDuration == 4000
RL_ExpectedTaps == 3
RL_HoldTime == 2000
RL_SensorWindowMs == 5000
RL_BrightnessWindowMs == 10000
RL_ShakeSamples == 20
RL_BrightnessSamples == 10

\* MLKitLivenessDetector
ML_MaxFrameHistory == 30
ML_TimeoutMs == 10000
ML_ClosedThreshold == 30
ML_OpenThreshold == 70
ML_BlinkSequenceSize == 20
ML_RecentStates == 6
ML_MaxBlinkMs == 1000
ML_MinBlinkMs == 100
ML_BlinkConfidenceStep == 300
ML_BaseConfidence == 500
ML_CompletionConfidence == 400
ML_NaturalConfidence == 100
ML_NaturalMinMs == 500
ML_NaturalMaxMs == 3000

\* amounts by which the clock advances between two handler invocations: the clock
\* is observed a challenge duration apart, so that a frame can arrive before,
\* exactly at and after a deadline
TickSteps == {TurnDuration, BlinkDuration}

\* confidences are kept in thousandths: 0.9 is 900, 1 is 1000
ConfidenceOne == 1000
BlinkConfidence == 900

Null == [null |-> TRUE]

Min(a, b) == IF a < b THEN a ELSE b
Abs(a) == IF a < 0 THEN 0 - a ELSE a

----------------------------------------------------------------------------
(* FaceData: the fields the detector reads *)

FaceData(fd, l, r, yaw) ==
    [faceDetected |-> fd, leftEyeOpen |-> l, rightEyeOpen |-> r, headYaw |-> yaw]

NoFaceFrame == FaceData(FALSE, TRUE, TRUE, 0)
EyeFrames == {FaceData(TRUE, TRUE, TRUE, 0), FaceData(TRUE, FALSE, FALSE, 0)}
YawFrames == {FaceData(TRUE, TRUE, TRUE, y) : y \in Yaws}
\* a left turn is a negative yaw, a right turn a positive one
StreamYawFrames(direction) ==
    {FaceData(TRUE, TRUE, TRUE, IF direction = "left" THEN 0 - y ELSE y) : y \in StreamTurns}
AllFrames ==
    EyeFrames \cup YawFrames \cup StreamYawFrames("left") \cup StreamYawFrames("right")
        \cup {NoFaceFrame}

----------------------------------------------------------------------------
(* EnhancedLivenessDetector *)

Challenge(type, duration, stamp) ==
    [id |-> <<type, stamp>>, type |-> type, duration |-> duration,
     completed |-> FALSE, startTime |-> 0]

\* startSession() that leaves the clock of the first challenge unset
NewSession_clockNotStarted(t) ==
    LET challenges == << Challenge("blink", BlinkDuration, t),
                         Challenge("turn_left", TurnDuration, t + 1),
                         Challenge("turn_right", TurnDuration, t + 2) >>
    IN  [sessionId |-> t,
         challenges |-> challenges,
         results |-> << >>,
         currentChallengeIndex |-> 0,
         isActive |-> TRUE,
         startTime |-> t]

\* startSession(): the session object it builds at clock value t
NewSession(t) ==
    LET challenges == << Challenge("blink", BlinkDuration, t),
                         Challenge("turn_left", TurnDuration, t + 1),
                         Challenge("turn_right", TurnDuration, t + 2) >>
    IN  [sessionId |-> t,
         challenges |-> [challenges EXCEPT ![1].startTime = t],
         results |-> << >>,
         currentChallengeIndex |-> 0,
         isActive |-> TRUE,
         startTime |-> t]

\* getCurrentChallenge()
getCurrentChallenge(s) ==
    IF s = Null \/ ~s.isActive THEN Null
    ELSE IF s.currentChallengeIndex >= Len(s.challenges) THEN Null
    ELSE s.challenges[s.currentChallengeIndex + 1]

\* this.faceDataHistory.push(faceData); shift() when longer than HISTORY_SIZE
PushFrame(h, f) ==
    LET h1 == Append(h, f)
    IN  IF Len(h1) > HISTORY_SIZE THEN Tail(h1) ELSE h1

\* frames.slice(-n)
LastN(h, n) == IF Len(h) <= n THEN h ELSE SubSeq(h, Len(h) - n + 1, Len(h))
\* frames.slice(0, n)
FirstN(h, n) == IF Len(h) <= n THEN h ELSE SubSeq(h, 1, n)

RECURSIVE BlinkScan(_, _, _, _, _)
\* the loop of detectBlink: [open |-> openCount, closed |-> closedCount]
BlinkScan(frames, i, openCount, closedCount, lastState) ==
    IF i > Len(frames) THEN [open |-> openCount, closed |-> closedCount]
    ELSE LET eyesOpen == frames[i].leftEyeOpen /\ frames[i].rightEyeOpen
         IN  IF eyesOpen /\ lastState # "open"
                 THEN BlinkScan(frames, i + 1, openCount + 1, closedCount, "open")
             ELSE IF ~eyesOpen /\ lastState # "closed"
                 THEN BlinkScan(frames, i + 1, openCount, closedCount + 1, "closed")
             ELSE BlinkScan(frames, i + 1, openCount, closedCount, lastState)

\* detectBlink(frames)
detectBlink(frames) ==
    IF Len(frames) < MinDetectFrames THEN FALSE
    ELSE LET c == BlinkScan(frames, 1, 0, 0, "unknown")
         IN  c.open >= 2 /\ c.closed >= 1

RECURSIVE SumYaw(_, _)
SumYaw(frames, i) ==
    IF i > Len(frames) THEN 0 ELSE frames[i].headYaw + SumYaw(frames, i + 1)

\* getBaselineHeadPosition(): the average yaw, kept as the fraction sum / n
getBaselineHeadPosition(h) ==
    IF Len(h) < MinBaselineFrames THEN [sum |-> 0, n |-> 1]
    ELSE LET firstFrames == FirstN(h, BaselineFrames)
         IN  [sum |-> SumYaw(firstFrames, 1), n |-> Len(firstFrames)]

\* moveToNextChallenge() stepping over a challenge
moveToNextChallenge_skipsOne(s, h, t) ==
    LET idx == s.currentChallengeIndex + 2
    IN  IF idx >= Len(s.challenges)
        THEN [session |-> [s EXCEPT !.currentChallengeIndex = idx, !.isActive = FALSE],
              history |-> h]
        ELSE [session |-> [s EXCEPT !.currentChallengeIndex = idx,
                                    !.challenges[idx + 1].startTime = t],
              history |-> << >>]

\* moveToNextChallenge() that leaves the session active after the last challenge
moveToNextChallenge_neverEnds(s, h, t) ==
    LET idx == s.currentChallengeIndex + 1
    IN  IF idx >= Len(s.challenges)
        THEN [session |-> [s EXCEPT !.currentChallengeIndex = idx], history |-> h]
        ELSE [session |-> [s EXCEPT !.currentChallengeIndex = idx,
                                    !.challenges[idx + 1].startTime = t],
              history |-> << >>]

\* moveToNextChallenge() that keeps the frames of the finished challenge
moveToNextChallenge_keepsHistory(s, h, t) ==
    LET idx == s.currentChallengeIndex + 1
    IN  IF idx >= Len(s.challenges)
        THEN [session |-> [s EXCEPT !.currentChallengeIndex = idx, !.isActive = FALSE],
              history |-> h]
        ELSE [session |-> [s EXCEPT !.currentChallengeIndex = idx,
                                    !.challenges[idx + 1].startTime = t],
              history |-> h]

\* moveToNextChallenge() at clock value t
moveToNextChallenge(s, h, t) ==
    LET idx == s.currentChallengeIndex + 1
    IN  IF idx >= Len(s.challenges)
        THEN [session |-> [s EXCEPT !.currentChallengeIndex = idx, !.isActive = FALSE],
              history |-> h]
        ELSE [session |-> [s EXCEPT !.currentChallengeIndex = idx,
                                    !.challenges[idx + 1].startTime = t],
              history |-> << >>]

\* completeChallenge(challenge, confidence) at clock value t
completeChallenge(s, h, t, confidence) ==
    LET i == s.currentChallengeIndex + 1
        challenge == s.challenges[i]
        result == [challengeId |-> challenge.id, challengeType |-> challenge.type,
                   success |-> TRUE, confidence |-> confidence,
                   completionTime |-> t - challenge.startTime,
                   errorMessage |-> "none"]
        s1 == [s EXCEPT !.challenges[i].completed = TRUE,
                        !.results = Append(@, result)]
        m == moveToNextChallenge(s1, h, t)
    IN  [session |-> m.session, history |-> m.history, value |-> result]

\* failChallenge() that records the failure and leaves the session active
failChallenge_staysActive(s, h, t, errorMessage) ==
    LET challenge == s.challenges[s.currentChallengeIndex + 1]
        result == [challengeId |-> challenge.id, challengeType |-> challenge.type,
                   success |-> FALSE, confidence |-> 0,
                   completionTime |-> t - challenge.startTime,
                   errorMessage |-> errorMessage]
    IN  [session |-> [s EXCEPT !.results = Append(@, result)],
         history |-> h, value |-> result]

\* failChallenge(challenge, errorMessage) at clock value t
failChallenge(s, h, t, errorMessage) ==
    LET challenge == s.challenges[s.currentChallengeIndex + 1]
        result == [challengeId |-> challenge.id, challengeType |-> challenge.type,
                   success |-> FALSE, confidence |-> 0,
                   completionTime |-> t - challenge.startTime,
                   errorMessage |-> errorMessage]
    IN  [session |-> [s EXCEPT !.results = Append(@, result), !.isActive = FALSE],
         history |-> h, value |-> result]

Pending(s, h) == [session |-> s, history |-> h, value |-> Null]

\* processBlinkChallenge(challenge, faceData)
processBlinkChallenge(s, h, t, f) ==
    IF ~f.faceDetected THEN failChallenge(s, h, t, "Face not detected")
    ELSE IF Len(h) < MinBlinkFrames THEN Pending(s, h)
    ELSE IF detectBlink(LastN(h, BlinkWindow))
         THEN completeChallenge(s, h, t, BlinkConfidence)
    ELSE Pending(s, h)

\* turnDetected with a turn of exactly the threshold accepted
turnDetected_inclusive(f, baseline, direction) ==
    LET diffN == f.headYaw * baseline.n - baseline.sum
    IN  IF direction = "left"
        THEN diffN <= (0 - HEAD_TURN_THRESHOLD) * baseline.n
        ELSE diffN >= HEAD_TURN_THRESHOLD * baseline.n

\* turnDetected of processHeadTurnChallenge: yawDifference = currentYaw - baseline.yaw,
\* compared after multiplying both sides by the number of baseline frames
turnDetected(f, baseline, direction) ==
    LET diffN == f.headYaw * baseline.n - baseline.sum
    IN  IF direction = "left"
        THEN diffN < (0 - HEAD_TURN_THRESHOLD) * baseline.n
        ELSE diffN > HEAD_TURN_THRESHOLD * baseline.n

\* Math.min(Math.abs(yawDifference) / 45, 1), in thousandths
turnConfidence(f, baseline) ==
    LET diffN == f.headYaw * baseline.n - baseline.sum
    IN  Min((Abs(diffN) * ConfidenceOne) \div (ConfidenceNormDegrees * baseline.n),
            ConfidenceOne)

\* processHeadTurnChallenge(challenge, faceData, direction)
processHeadTurnChallenge(s, h, t, f, direction) ==
    IF ~f.faceDetected THEN failChallenge(s, h, t, "Face not detected")
    ELSE IF Len(h) < MinTurnFrames THEN Pending(s, h)
    ELSE LET baseline == getBaselineHeadPosition(h)
         IN  IF turnDetected(f, baseline, direction)
             THEN completeChallenge(s, h, t, turnConfidence(f, baseline))
             ELSE Pending(s, h)

\* the timeout test with the deadline itself counted as late
timedOut_inclusive(challenge, t) == t - challenge.startTime >= challenge.duration

\* the timeout test dropped
timedOut_never(challenge, t) == FALSE

\* the timeout test applied to the blink challenge only
timedOut_blinkOnly(challenge, t) ==
    challenge.type = "blink" /\ t - challenge.startTime > challenge.duration

\* elapsed > currentChallenge.duration
timedOut(challenge, t) == t - challenge.startTime > challenge.duration

\* processFaceData(faceData) past its first line: the frame is recorded and evaluated
processActiveFrame(s, h, t, f) ==
    LET h1 == PushFrame(h, f)
        currentChallenge == getCurrentChallenge(s)
    IN  IF currentChallenge = Null THEN Pending(s, h1)
        ELSE IF timedOut(currentChallenge, t)
            THEN failChallenge(s, h1, t, "Challenge timed out")
        ELSE IF currentChallenge.type = "blink"
            THEN processBlinkChallenge(s, h1, t, f)
        ELSE IF currentChallenge.type = "turn_left"
            THEN processHeadTurnChallenge(s, h1, t, f, "left")
        ELSE IF currentChallenge.type = "turn_right"
            THEN processHeadTurnChallenge(s, h1, t, f, "right")
        ELSE Pending(s, h1)

\* processFaceData() answering a call without an active session with an error value
processFaceData_signalsInvalid(s, h, t, f) ==
    IF s = Null \/ ~s.isActive
    THEN [session |-> s, history |-> h, value |-> [error |-> "InvalidSessionState"]]
    ELSE processActiveFrame(s, h, t, f)

\* processFaceData() recording the frame before it looks at the session
processFaceData_pushesFirst(s, h, t, f) ==
    IF s = Null \/ ~s.isActive THEN Pending(s, PushFrame(h, f))
    ELSE processActiveFrame(s, h, t, f)

\* processFaceData(faceData) at clock value t: the state it leaves and the value it returns
processFaceData(s, h, t, f) ==
    IF s = Null \/ ~s.isActive THEN Pending(s, h)
    ELSE processActiveFrame(s, h, t, f)

\* getProgress()
getProgress(s) ==
    IF s = Null THEN 0
    ELSE (Cardinality({i \in 1..Len(s.results) : s.results[i].success}) * ConfidenceOne)
             \div Len(s.challenges)

\* isSessionComplete() counting every result, failed ones included
isSessionComplete_countsAll(s) ==
    IF s = Null THEN FALSE
    ELSE Len(s.results) = Len(s.challenges)

\* isSessionComplete()
isSessionComplete(s) ==
    IF s = Null THEN FALSE
    ELSE Cardinality({i \in 1..Len(s.results) : s.results[i].success}) = Len(s.challenges)

\* isSessionFailed()
isSessionFailed(s) ==
    IF s = Null THEN FALSE ELSE ~s.isActive /\ ~isSessionComplete(s)

\* isActive()
isActive(s) == IF s = Null THEN FALSE ELSE s.isActive

\* getSessionSummary()
getSessionSummary(s, t) ==
    IF s = Null THEN Null
    ELSE [totalChallenges |-> Len(s.challenges),
          completedChallenges |-> Cardinality({i \in 1..Len(s.results) : s.results[i].success}),
          failedChallenges |-> Cardinality({i \in 1..Len(s.results) : ~s.results[i].success}),
          overallSuccess |-> isSessionComplete(s),
          duration |-> t - s.startTime]

----------------------------------------------------------------------------
(* The frames delivered to the detector *)

\* the frame source varies what the current challenge reads: the eyes during a
\* blink challenge, the yaw during a head turn; the face can be lost at any time
FramesFor(s) ==
    LET c == getCurrentChallenge(s)
    IN  IF c = Null THEN AllFrames
        ELSE IF c.type = "blink" THEN EyeFrames \cup {NoFaceFrame}
        ELSE YawFrames \cup {NoFaceFrame}

FrameCap(s) ==
    LET c == getCurrentChallenge(s)
    IN  IF c = Null THEN 0
        ELSE IF c.type = "blink" THEN MaxBlinkFrames ELSE MaxTurnFrames

\* before the deadline at most FrameCap frames arrive for one challenge
FrameArrives(s, h, t) ==
    LET c == getCurrentChallenge(s)
    IN  IF c = Null THEN TRUE
        ELSE IF Len(h) < FrameCap(s) THEN TRUE
        ELSE timedOut(c, t)

----------------------------------------------------------------------------
(* Actions of the detector *)

\* the state of the session machine: idle, active, completed or failed
StateOf(s) ==
    IF s = Null THEN "idle"
    ELSE IF s.isActive THEN "active"
    ELSE IF isSessionComplete(s) THEN "completed"
    ELSE "failed"

StartSession ==
    /\ session' = NewSession(now)
    /\ faceDataHistory' = << >>
    /\ ret' = [op |-> "startSession", value |-> Null, replaced |-> isActive(session)]
    /\ UNCHANGED <<now>>
    /\ UNCHANGED <<otherDetectors, appVars>>

\* one call of processFaceData(f)
CallProcessFaceData(f) ==
    /\ LET out == processFaceData(session, faceDataHistory, now, f)
       IN  /\ session' = out.session
           /\ faceDataHistory' = out.history
           /\ ret' = [op |-> "processFaceData", value |-> out.value]
    /\ UNCHANGED <<now>>
    /\ UNCHANGED <<otherDetectors, appVars>>

ProcessFaceData(f) ==
    /\ FrameArrives(session, faceDataHistory, now)
    /\ CallProcessFaceData(f)

Ingest == \E f \in FramesFor(session) : ProcessFaceData(f)

Reset ==
    /\ session' = Null
    /\ faceDataHistory' = << >>
    /\ ret' = [op |-> "reset", value |-> Null, from |-> StateOf(session)]
    /\ UNCHANGED <<now>>
    /\ UNCHANGED <<otherDetectors, appVars>>

Tick ==
    /\ \E d \in TickSteps : now + d <= MaxTime /\ now' = now + d
    /\ UNCHANGED <<session, faceDataHistory, ret>>
    /\ UNCHANGED <<otherDetectors, appVars>>

----------------------------------------------------------------------------
(* LivenessDetector (src/unnamed/part_010) *)

\* the fields of FaceMetrics the detector reads; eyeAspectRatio in hundredths
FaceMetrics(fd, ear, smiling, yaw, pitch) ==
    [faceDetected |-> fd, eyeAspectRatio |-> ear, smiling |-> smiling,
     headPosition |-> [yaw |-> yaw, pitch |-> pitch]]

\* this.challenges; thresholds in thousandths
LD_challenges ==
    << [type |-> "blink", duration |-> LD_BlinkDuration, threshold |-> LD_BlinkThreshold],
       [type |-> "smile", duration |-> LD_SmileDuration, threshold |-> LD_SmileThreshold],
       [type |-> "turn_head", duration |-> LD_TurnDuration, threshold |-> LD_TurnThreshold],
       [type |-> "nod", duration |-> LD_NodDuration, threshold |-> LD_NodThreshold] >>

\* the field initialisers of the class
LD_Idle ==
    [currentChallenge |-> Null, challengeStartTime |-> 0, baselineMetrics |-> Null,
     frameBuffer |-> << >>, blinkSequence |-> << >>, headMovements |-> << >>]

\* startSession() with the challenge getRandomChallenge() picked, at clock value t
LD_startSession(d, challenge, t) ==
    [currentChallenge |-> challenge, challengeStartTime |-> t, baselineMetrics |-> Null,
     frameBuffer |-> << >>, blinkSequence |-> << >>, headMovements |-> << >>]

\* reset() that forgets to clear the frame buffer
LD_reset_keepsFrames(d) ==
    [currentChallenge |-> Null, challengeStartTime |-> 0, baselineMetrics |-> Null,
     frameBuffer |-> d.frameBuffer, blinkSequence |-> << >>, headMovements |-> << >>]

\* reset()
LD_reset(d) ==
    [currentChallenge |-> Null, challengeStartTime |-> 0, baselineMetrics |-> Null,
     frameBuffer |-> << >>, blinkSequence |-> << >>, headMovements |-> << >>]

\* getProgress() at clock value t, in thousandths
LD_getProgress(d, t) ==
    IF d.currentChallenge = Null THEN 0
    ELSE Min(((t - d.challengeStartTime) * ConfidenceOne) \div d.currentChallenge.duration,
             ConfidenceOne)

\* isActive()
LD_isActive(d) == d.currentChallenge # Null

\* push that leaves a full queue as it is
PushBounded_dropsNewest(q, x, size) ==
    IF Len(q) >= size THEN q ELSE Append(q, x)

\* push(x); shift() when longer than size
PushBounded(q, x, size) ==
    LET q1 == Append(q, x) IN IF Len(q1) > size THEN Tail(q1) ELSE q1

RECURSIVE SumOf(_)
\* values.reduce((sum, val) => sum + val, 0)
SumOf(values) == IF values = << >> THEN 0 ELSE Head(values) + SumOf(Tail(values))

\* calculateBaseline(): each average kept as its sum and the number of frames
LD_calculateBaseline(d) ==
    LET recentFrames == LastN(d.frameBuffer, LD_BaselineFrames)
        idx == 1..Len(recentFrames)
    IN  [faceDetected |-> TRUE,
         eyeAspectRatioSum |-> SumOf([i \in idx |-> recentFrames[i].eyeAspectRatio]),
         yawSum |-> SumOf([i \in idx |-> recentFrames[i].headPosition.yaw]),
         pitchSum |-> SumOf([i \in idx |-> recentFrames[i].headPosition.pitch]),
         n |-> Len(recentFrames)]

\* processBlinkChallenge(metrics): eyeAspectRatio < baseline.eyeAspectRatio * 0.7
LD_processBlinkChallenge(d, metrics) ==
    LET isBlink == metrics.eyeAspectRatio * d.baselineMetrics.n * 10
                       < d.baselineMetrics.eyeAspectRatioSum * LD_EarFactorTenths
    IN  [d EXCEPT !.blinkSequence = PushBounded(@, isBlink, LD_BlinkSequenceSize)]

\* processHeadTurnChallenge(metrics) and processNodChallenge(metrics)
LD_processHeadMovement(d, metrics) ==
    [d EXCEPT !.headMovements =
        PushBounded(@, [yaw |-> metrics.headPosition.yaw,
                        pitch |-> metrics.headPosition.pitch], LD_HeadMovementsSize)]

\* processChallengeFrame(metrics)
LD_processChallengeFrame(d, metrics) ==
    IF d.currentChallenge = Null \/ d.baselineMetrics = Null THEN d
    ELSE IF d.currentChallenge.type = "blink" THEN LD_processBlinkChallenge(d, metrics)
    ELSE IF d.currentChallenge.type \in {"turn_head", "nod"}
        THEN LD_processHeadMovement(d, metrics)
    ELSE d

\* evaluateBlinkChallenge()
LD_evaluateBlinkChallenge(d) ==
    LET b == d.blinkSequence
        cycles == Cardinality({i \in 3..Len(b) : ~b[i - 2] /\ b[i - 1] /\ ~b[i]})
        blinkCount == Cardinality({i \in 1..Len(b) : b[i]})
        natural == 10 * blinkCount > Len(b) /\ 10 * blinkCount < 4 * Len(b)
        confidence == Min(cycles * LD_CycleConfidence, ConfidenceOne)
                          + (IF natural THEN LD_NaturalRateConfidence ELSE 0)
    IN  [success |-> cycles > 0, confidence |-> Min(confidence, ConfidenceOne)]

\* evaluateSmileChallenge()
LD_evaluateSmileChallenge(d) ==
    LET recentFrames == LastN(d.frameBuffer, LD_BaselineFrames)
        smileFrames == Cardinality({i \in 1..Len(recentFrames) : recentFrames[i].smiling})
    IN  [success |-> 10 * smileFrames > 6 * Len(recentFrames),
         confidence |-> Min((smileFrames * 1200) \div Len(recentFrames), ConfidenceOne)]

SetMax(S) == CHOOSE x \in S : \A y \in S : y <= x
SetMin(S) == CHOOSE x \in S : \A y \in S : x <= y

\* evaluateHeadTurnChallenge() with a range of exactly the threshold accepted
LD_evaluateHeadTurnChallenge_inclusive(d) ==
    IF Len(d.headMovements) < LD_MinHeadMovements THEN [success |-> FALSE, confidence |-> 0]
    ELSE LET yawValues == {d.headMovements[i].yaw : i \in 1..Len(d.headMovements)}
             yawRange == SetMax(yawValues) - SetMin(yawValues)
         IN  [success |-> yawRange >= LD_YawRangeThreshold,
              confidence |-> Min((yawRange * ConfidenceOne) \div LD_YawNormDegrees,
                                 ConfidenceOne)]

\* evaluateHeadTurnChallenge()
LD_evaluateHeadTurnChallenge(d) ==
    IF Len(d.headMovements) < LD_MinHeadMovements THEN [success |-> FALSE, confidence |-> 0]
    ELSE LET yawValues == {d.headMovements[i].yaw : i \in 1..Len(d.headMovements)}
             yawRange == SetMax(yawValues) - SetMin(yawValues)
         IN  [success |-> yawRange > LD_YawRangeThreshold,
              confidence |-> Min((yawRange * ConfidenceOne) \div LD_YawNormDegrees,
                                 ConfidenceOne)]

\* evaluateNodChallenge()
LD_evaluateNodChallenge(d) ==
    IF Len(d.headMovements) < LD_MinHeadMovements THEN [success |-> FALSE, confidence |-> 0]
    ELSE LET pitchValues == {d.headMovements[i].pitch : i \in 1..Len(d.headMovements)}
             pitchRange == SetMax(pitchValues) - SetMin(pitchValues)
         IN  [success |-> pitchRange > LD_PitchRangeThreshold,
              confidence |-> Min((pitchRange * ConfidenceOne) \div LD_PitchNormDegrees,
                                 ConfidenceOne)]

\* evaluateChallenge() at clock value t: the LivenessResult
LD_evaluateChallenge(d, t) ==
    IF d.currentChallenge = Null \/ d.baselineMetrics = Null
    THEN [success |-> FALSE, confidence |-> 0, challenge |-> d.currentChallenge,
          timestamp |-> t]
    ELSE LET type == d.currentChallenge.type
             e == IF type = "blink" THEN LD_evaluateBlinkChallenge(d)
                  ELSE IF type = "smile" THEN LD_evaluateSmileChallenge(d)
                  ELSE IF type = "turn_head" THEN LD_evaluateHeadTurnChallenge(d)
                  ELSE LD_evaluateNodChallenge(d)
         IN  [success |-> e.success /\ e.confidence >= d.currentChallenge.threshold,
              confidence |-> e.confidence,
              challenge |-> d.currentChallenge,
              timestamp |-> t]

\* processFrame() after its await, with the metrics extracted, at clock value t:
\* the fields it leaves and the value its promise settles with
LD_processFrameResumed(d, t, metrics) ==
    LET d1 == [d EXCEPT !.frameBuffer = PushBounded(@, metrics, FRAME_BUFFER_SIZE)]
        d2 == IF d1.baselineMetrics = Null /\ Len(d1.frameBuffer) >= LD_BaselineFrames
              THEN [d1 EXCEPT !.baselineMetrics = LD_calculateBaseline(d1)]
              ELSE d1
    IN  IF d2.baselineMetrics = Null THEN [state |-> d2, value |-> Null]
        \* this.currentChallenge.duration of a null challenge throws
        ELSE IF d2.currentChallenge = Null
            THEN [state |-> d2, value |-> [error |-> "TypeError"]]
        ELSE IF t - d2.challengeStartTime > d2.currentChallenge.duration
            THEN [state |-> d2, value |-> LD_evaluateChallenge(d2, t)]
        ELSE [state |-> LD_processChallengeFrame(d2, metrics), value |-> Null]


----------------------------------------------------------------------------
(* MLKitLivenessDetector (src/unnamed/part_011) *)

\* a FaceDetectionFrame: eye-open probabilities in hundredths
DetectionFrame(fd, l, r, t) ==
    [faceDetected |-> fd, leftEyeOpenProbability |-> l, rightEyeOpenProbability |-> r,
     timestamp |-> t]

\* the LivenessState of an idle detector
ML_IdleState ==
    [isActive |-> FALSE, challenge |-> Null, startTime |-> 0, completedBlinks |-> 0,
     currentEyeState |-> "unknown", lastBlinkTime |-> 0, confidence |-> 0]

\* the fields of a new MLKitLivenessDetector
ML_Idle == [state |-> ML_IdleState, frameHistory |-> << >>, blinkSequence |-> << >>]

\* startBlinkChallenge(requiredBlinks) at clock value t
ML_startBlinkChallenge(m, requiredBlinks, t) ==
    [state |-> [isActive |-> TRUE,
                challenge |-> [type |-> "blink", requiredBlinks |-> requiredBlinks,
                               timeoutMs |-> ML_TimeoutMs,
                               eyeOpenThreshold |-> [closed |-> ML_ClosedThreshold,
                                                     open |-> ML_OpenThreshold]],
                startTime |-> t, completedBlinks |-> 0, currentEyeState |-> "unknown",
                lastBlinkTime |-> 0, confidence |-> 0],
     frameHistory |-> << >>,
     blinkSequence |-> << >>]

\* reset()
ML_reset(m) == [state |-> ML_IdleState, frameHistory |-> << >>, blinkSequence |-> << >>]

\* isActive()
ML_isActive(m) == m.state.isActive

\* getProgress() at clock value t, in thousandths
ML_getProgress(m, t) ==
    IF ~m.state.isActive \/ m.state.challenge = Null THEN 0
    ELSE LET timeProgress ==
                 Min(((t - m.state.startTime) * ConfidenceOne) \div m.state.challenge.timeoutMs,
                     ConfidenceOne)
             blinkProgress ==
                 (m.state.completedBlinks * ConfidenceOne) \div m.state.challenge.requiredBlinks
         IN  IF timeProgress > blinkProgress THEN timeProgress ELSE blinkProgress

\* the timing test of detectBlinkInSequence taken from the closed frame
ML_blinkTimed_fromClosed(prev2, prev1, current) ==
    LET blinkDuration == current.timestamp - prev1.timestamp
    IN  blinkDuration <= ML_MaxBlinkMs /\ blinkDuration >= ML_MinBlinkMs

\* the timing test of detectBlinkInSequence: current.timestamp - prev2.timestamp
ML_blinkTimed(prev2, prev1, current) ==
    LET blinkDuration == current.timestamp - prev2.timestamp
    IN  blinkDuration <= ML_MaxBlinkMs /\ blinkDuration >= ML_MinBlinkMs

\* detectBlinkInSequence()
ML_detectBlinkInSequence(blinkSequence) ==
    IF Len(blinkSequence) < 3 THEN FALSE
    ELSE LET recent == LastN(blinkSequence, ML_RecentStates)
         IN  \E i \in 3..Len(recent) :
                /\ recent[i - 2].state = "open"
                /\ recent[i - 1].state = "closed"
                /\ recent[i].state = "open"
                /\ ML_blinkTimed(recent[i - 2], recent[i - 1], recent[i])

\* processBlink(frame)
ML_processBlink(m, frame) ==
    IF m.state.challenge = Null THEN m
    ELSE LET th == m.state.challenge.eyeOpenThreshold
             sumProb == frame.leftEyeOpenProbability + frame.rightEyeOpenProbability
             currentState == IF sumProb <= 2 * th.closed THEN "closed"
                             ELSE IF sumProb >= 2 * th.open THEN "open"
                             ELSE "unknown"
             seq1 == IF currentState = "unknown" THEN m.blinkSequence
                     ELSE PushBounded(m.blinkSequence,
                                      [timestamp |-> frame.timestamp, state |-> currentState],
                                      ML_BlinkSequenceSize)
             detected == currentState # "unknown" /\ ML_detectBlinkInSequence(seq1)
             st1 == IF detected
                    THEN [m.state EXCEPT !.completedBlinks = @ + 1,
                                         !.lastBlinkTime = frame.timestamp,
                                         !.confidence = Min(@ + ML_BlinkConfidenceStep,
                                                            ConfidenceOne)]
                    ELSE m.state
         IN  [m EXCEPT !.blinkSequence = seq1,
                       !.state = [st1 EXCEPT !.currentEyeState = currentState]]

\* calculateAverageBlinkInterval(): the sum of the intervals between successive
\* closed entries and their number (timestamps of Date.now() are all above 0)
ML_calculateAverageBlinkInterval(blinkSequence) ==
    IF Len(blinkSequence) < 4 THEN [sum |-> 0, n |-> 0]
    ELSE LET closedAt == {i \in 1..Len(blinkSequence) : blinkSequence[i].state = "closed"}
             prev(i) == CHOOSE j \in closedAt : j < i /\ \A k \in closedAt : k < i => k <= j
             later == {i \in closedAt : \E j \in closedAt : j < i}
             blinkTimes == [i \in later |->
                               blinkSequence[i].timestamp - blinkSequence[prev(i)].timestamp]
             first == CHOOSE i \in closedAt : \A k \in closedAt : i <= k
             last == CHOOSE i \in closedAt : \A k \in closedAt : k <= i
         IN  IF later = {} THEN [sum |-> 0, n |-> 0]
             \* the intervals between successive entries add up to last - first
             ELSE [sum |-> blinkSequence[last].timestamp - blinkSequence[first].timestamp,
                   n |-> Cardinality(later)]

\* calculateFinalConfidence(success), in thousandths
ML_calculateFinalConfidence(m, success) ==
    IF ~success THEN 0
    ELSE LET completion ==
                 IF m.state.challenge = Null THEN 0
                 ELSE (m.state.completedBlinks * ML_CompletionConfidence)
                          \div m.state.challenge.requiredBlinks
             avg == ML_calculateAverageBlinkInterval(m.blinkSequence)
             natural == avg.n > 0 /\ avg.sum > ML_NaturalMinMs * avg.n
                                  /\ avg.sum < ML_NaturalMaxMs * avg.n
         IN  Min(ML_BaseConfidence + completion
                     + (IF natural THEN ML_NaturalConfidence ELSE 0), ConfidenceOne)

\* completeChallenge(success, error) at clock value t
ML_completeChallenge(m, t, success, error) ==
    [state |-> ML_reset(m),
     value |-> [success |-> success,
                confidence |-> ML_calculateFinalConfidence(m, success),
                completedBlinks |-> m.state.completedBlinks,
                requiredBlinks |-> IF m.state.challenge = Null THEN 0
                                   ELSE m.state.challenge.requiredBlinks,
                timeElapsed |-> t - m.state.startTime,
                error |-> error]]

\* processFrame(imageUri) with the frame analyzeFrameForMotion yields, at clock value t
ML_processFrame(m, t, frame) ==
    IF ~m.state.isActive \/ m.state.challenge = Null THEN [state |-> m, value |-> Null]
    ELSE LET m1 == [m EXCEPT !.frameHistory = PushBounded(@, frame, ML_MaxFrameHistory)]
         IN  IF t - m1.state.startTime > m1.state.challenge.timeoutMs
             THEN ML_completeChallenge(m1, t, FALSE, "Timeout - please try again")
             ELSE IF frame.faceDetected
                 THEN LET m2 == ML_processBlink(m1, frame)
                      IN  IF m2.state.completedBlinks >= m2.state.challenge.requiredBlinks
                          THEN ML_completeChallenge(m2, t, TRUE, "none")
                          ELSE [state |-> m2, value |-> Null]
             ELSE [state |-> m1, value |-> Null]

----------------------------------------------------------------------------
(* RealLivenessDetector (src/unnamed/part_011) *)

Max(a, b) == IF a > b THEN a ELSE b

\* this.challenges: the fields getProgress reads
RL_challenges ==
    << [type |-> "tap_sequence", duration |-> RL_TapDuration,
        expectedPattern |-> [taps |-> RL_ExpectedTaps]],
       [type |-> "hold_and_release", duration |-> RL_HoldDuration,
        expectedPattern |-> [holdTime |-> RL_HoldTime]],
       [type |-> "shake_device", duration |-> RL_ShakeDuration,
        expectedPattern |-> [minShakes |-> 2]],
       [type |-> "brightness_change", duration |-> RL_BrightnessDuration,
        expectedPattern |-> [changes |-> 2]] >>

\* the fields of a new RealLivenessDetector (of deviceSensors the accelerometer)
RL_Idle ==
    [currentChallenge |-> Null, interactionLog |-> << >>, accelerometer |-> << >>,
     brightnessHistory |-> << >>, sessionStartTime |-> 0]

\* startSession() drawing the challenge template at clock value t
RL_startSession(r, template, t) ==
    [currentChallenge |-> [type |-> template.type, duration |-> template.duration,
                           expectedPattern |-> template.expectedPattern,
                           startTime |-> t],
     interactionLog |-> << >>, accelerometer |-> << >>, brightnessHistory |-> << >>,
     sessionStartTime |-> t]

\* reset()
RL_reset(r) == RL_Idle

\* recordInteraction(type, data) at clock value t
RL_recordInteraction(r, type, t) ==
    IF r.currentChallenge = Null THEN r
    ELSE [r EXCEPT !.interactionLog =
              Append(@, [type |-> type, timestamp |-> t,
                         relativeTime |-> t - r.currentChallenge.startTime])]

\* the entries of q that are younger than window at clock value t
RL_recent(q, t, window) == SelectSeq(q, LAMBDA item : item.timestamp > t - window)

\* recordSensorData('accelerometer', data) at clock value t
RL_recordSensorData(r, t) ==
    IF r.currentChallenge = Null THEN r
    ELSE [r EXCEPT !.accelerometer =
              RL_recent(Append(@, [timestamp |-> t]), t, RL_SensorWindowMs)]

\* recordBrightnessChange(brightness) at clock value t
RL_recordBrightnessChange(r, t) ==
    IF r.currentChallenge = Null THEN r
    ELSE [r EXCEPT !.brightnessHistory =
              RL_recent(Append(@, [timestamp |-> t]), t, RL_BrightnessWindowMs)]

\* getPartialCompletion() at clock value t, in thousandths
RL_getPartialCompletion(r, t) ==
    IF r.currentChallenge = Null THEN 0
    ELSE IF r.currentChallenge.type = "tap_sequence"
        THEN LET taps == SelectSeq(r.interactionLog, LAMBDA log : log.type = "tap")
             IN  (Len(taps) * ConfidenceOne) \div r.currentChallenge.expectedPattern.taps
    ELSE IF r.currentChallenge.type = "hold_and_release"
        THEN LET starts == SelectSeq(r.interactionLog, LAMBDA log : log.type = "touch_start")
             IN  IF starts # << >>
                 THEN Min(((t - starts[1].timestamp) * ConfidenceOne)
                              \div r.currentChallenge.expectedPattern.holdTime,
                          ConfidenceOne)
                 ELSE 0
    ELSE IF r.currentChallenge.type = "shake_device"
        THEN Min((Len(r.accelerometer) * ConfidenceOne) \div RL_ShakeSamples, ConfidenceOne)
    ELSE Min((Len(r.brightnessHistory) * ConfidenceOne) \div RL_BrightnessSamples,
             ConfidenceOne)

\* getProgress() at clock value t, in thousandths
RL_getProgress(r, t) ==
    IF r.currentChallenge = Null THEN 0
    ELSE LET elapsed == t - r.currentChallenge.startTime
             progress == Min((elapsed * ConfidenceOne) \div r.currentChallenge.duration,
                             ConfidenceOne)
         IN  Max(progress, RL_getPartialCompletion(r, t))

----------------------------------------------------------------------------
(* FaceBasedLivenessDetector and detectionReducer (faceBasedLivenessDetection).
   Probabilities are in hundredths, angles in tenths of a degree.  faceBased.state is
   the state the reducer of the component holds: a dispatched action is folded
   into it in dispatch order.  faceBased.det is the detector's own copy (this.state),
   refreshed by updateState from an effect of the component. *)

FB_BlinkMinProbability == 30
FB_TurnLeftMaxAngle == 0 - 150
FB_TurnRightMinAngle == 150
FB_NodMinDiff == 15
FB_SmileMinProbability == 70
FB_RollAngles == 10
FB_TooBigPercent == 80
PREVIEW_SIZE == 325
\* the width of the window the preview is centred in
WindowWidth == 375

detectionsList == <<"BLINK", "TURN_HEAD_LEFT", "TURN_HEAD_RIGHT", "NOD", "SMILE">>

initialState ==
    [faceDetected |-> "no", faceTooBig |-> "no", currentDetectionIndex |-> 0,
     progressFill |-> 0, processComplete |-> FALSE]

PREVIEW_RECT ==
    [minX |-> (WindowWidth - PREVIEW_SIZE) \div 2, minY |-> 50,
     width |-> PREVIEW_SIZE, height |-> PREVIEW_SIZE]

contains(outside, inside) ==
    /\ inside.minX >= outside.minX
    /\ inside.minX + inside.width <= outside.minX + outside.width
    /\ inside.minY >= outside.minY
    /\ inside.minY + inside.height <= outside.minY + outside.height

detectionReducer(state, action) ==
    IF action.type = "FACE_DETECTED"
    THEN [state EXCEPT !.faceDetected = IF action.payload THEN "yes" ELSE "no"]
    ELSE IF action.type = "FACE_TOO_BIG"
    THEN [state EXCEPT !.faceTooBig = IF action.payload THEN "yes" ELSE "no"]
    ELSE IF action.type = "NEXT_DETECTION"
    THEN LET nextIndex == state.currentDetectionIndex + 1
         IN  [state EXCEPT !.currentDetectionIndex = nextIndex,
                           !.progressFill = (nextIndex * 100) \div Len(detectionsList),
                           !.processComplete = nextIndex >= Len(detectionsList)]
    ELSE IF action.type = "RESET_PROCESS" THEN initialState
    ELSE state

FB_New == [state |-> initialState, det |-> initialState, rollAngles |-> << >>, stale |-> 0]

\* processNodGesture: the angles after the push, and whether the last one differs
\* from the average of the nine before it by minDiff or more
FB_processNodGesture(rollAngles, rollAngle) ==
    LET angles == PushBounded(rollAngles, rollAngle, FB_RollAngles)
        n == Len(angles) - 1
        rollAnglesSum == SumOf([i \in 1..n |-> Abs(angles[i])])
    IN  [rollAngles |-> angles,
         detected |-> /\ Len(angles) >= FB_RollAngles
                      /\ Abs(rollAnglesSum - n * Abs(rollAngle)) >= n * FB_NodMinDiff]

\* the gesture test of processGestures for one action of detectionsList
FB_gestureDetected(currentAction, face, nod) ==
    IF currentAction = "BLINK"
    THEN /\ face.leftEyeOpenProbability <= FB_BlinkMinProbability
         /\ face.rightEyeOpenProbability <= FB_BlinkMinProbability
    ELSE IF currentAction = "TURN_HEAD_LEFT" THEN face.yawAngle <= FB_TurnLeftMaxAngle
    ELSE IF currentAction = "TURN_HEAD_RIGHT" THEN face.yawAngle >= FB_TurnRightMinAngle
    ELSE IF currentAction = "NOD" THEN nod.detected
    ELSE IF currentAction = "SMILE" THEN face.smilingProbability >= FB_SmileMinProbability
    ELSE FALSE

\* processGestures reads the detector's copy of the state; beyond the end of
\* detectionsList the action is undefined and detection.instruction throws
FB_processGestures(f, face) ==
    LET index == f.det.currentDetectionIndex
        currentAction == IF index < Len(detectionsList) THEN detectionsList[index + 1]
                         ELSE "undefined"
        nod == IF currentAction = "NOD" THEN FB_processNodGesture(f.rollAngles, face.rollAngle)
               ELSE [rollAngles |-> f.rollAngles, detected |-> FALSE]
        gestureDetected == FB_gestureDetected(currentAction, face, nod)
    IN  [f EXCEPT !.rollAngles = nod.rollAngles,
                  !.state = IF gestureDetected
                            THEN detectionReducer(@, [type |-> "NEXT_DETECTION", payload |-> FALSE])
                            ELSE @]

FB_processFaceDetection(f, faces) ==
    IF Len(faces) = 0
    THEN [f EXCEPT !.state = detectionReducer(@, [type |-> "FACE_DETECTED", payload |-> FALSE])]
    ELSE IF Len(faces) > 1 THEN f
    ELSE LET face == faces[1]
             faceInPreview == contains(PREVIEW_RECT, face.bounds)
             faceTooBig == 100 * face.bounds.width * face.bounds.height
                               > FB_TooBigPercent * PREVIEW_RECT.width * PREVIEW_RECT.height
             f1 == [f EXCEPT !.state = detectionReducer(@, [type |-> "FACE_DETECTED",
                                                           payload |-> faceInPreview])]
             f2 == [f1 EXCEPT !.state = detectionReducer(@, [type |-> "FACE_TOO_BIG",
                                                            payload |-> faceTooBig])]
         IN  IF ~faceInPreview THEN f1
             ELSE IF faceTooBig THEN f2
             ELSE FB_processGestures(f2, face)

FB_updateState(f, newState) == [f EXCEPT !.det = newState, !.stale = 0]

FB_reset(f) ==
    [f EXCEPT !.rollAngles = << >>, !.det = initialState,
              !.state = detectionReducer(@, [type |-> "RESET_PROCESS", payload |-> FALSE])]

----------------------------------------------------------------------------

InitDetector ==
    /\ session = Null
    /\ faceDataHistory = << >>
    /\ now = 0
    /\ ret = [op |-> "new", value |-> Null]
    /\ ld = LD_Idle
    /\ ldCalls = 0
    /\ ml = ML_Idle
    /\ rl = RL_Idle
    /\ faceBased = FB_New

InitApp ==
    /\ stack = << "PhoneInput" >>
    /\ otpVerified = FALSE
    /\ navTimer = FALSE
    /\ currentStep = "blink"
    /\ stepCompleted = FALSE
    /\ isProcessing = FALSE
    /\ livenessScore = 0
    /\ lcError = FALSE
    /\ timers = {}
    /\ dialog = "none"
    /\ capturedImage = FALSE
    /\ selfieCompleted = FALSE

Init == InitDetector /\ InitApp

Next == StartSession \/ Ingest \/ Reset \/ Tick

Spec == Init /\ [][Next]_vars

----------------------------------------------------------------------------
(* A long stream of frames: the interval of RealLivenessCapture delivers a frame
   every 100 ms, 40 and more during one challenge, which is more than the history
   keeps.  The subject moves slowly: during a blink challenge the eyes change at
   most MaxChanges times within the frames the history holds, during a head turn
   the head moves steadily in one direction. *)

StreamFramesFor(s) ==
    LET c == getCurrentChallenge(s)
    IN  IF c = Null THEN EyeFrames
        ELSE IF c.type = "blink" THEN EyeFrames
        ELSE IF c.type = "turn_left" THEN StreamYawFrames("left")
        ELSE StreamYawFrames("right")

\* the number of places where a frame differs from the one before it
Changes(h) == Cardinality({i \in 1..(Len(h) - 1) : h[i] # h[i + 1]})

\* the yaw never rises, or never falls, along h
Steady(h) ==
    \/ \A i \in 1..(Len(h) - 1) : h[i].headYaw >= h[i + 1].headYaw
    \/ \A i \in 1..(Len(h) - 1) : h[i].headYaw <= h[i + 1].headYaw

StreamFrame(f) ==
    /\ Changes(Append(faceDataHistory, f)) <= MaxChanges
    /\ Steady(Append(faceDataHistory, f))
    /\ CallProcessFaceData(f)

IngestStream == \E f \in StreamFramesFor(session) : StreamFrame(f)

\* the stream is the part of a challenge before its deadline: the clock reading
\* does not change while it runs
NextStream == StartSession \/ IngestStream \/ Reset

SpecStream == Init /\ [][NextStream]_vars

----------------------------------------------------------------------------
(* LivenessDetector driven by the interval of LivenessCaptureScreen: every tick
   calls processFrame, which is suspended in extractFaceMetrics; startSession and
   reset are called from timers and buttons while a call is suspended.  The
   subject holds the neutral pose until the baseline is taken, then varies what
   the challenge reads, moving the head steadily in one direction. *)

LDNeutral == FaceMetrics(TRUE, EarOpen, FALSE, 0, 0)

\* the metrics of a frame in which no face was detected (faceDetected is drawn
\* independently of the other metrics)
LDNoFace == FaceMetrics(FALSE, EarOpen, FALSE, 0, 0)

LDFramesFor(d) ==
    {LDNoFace} \cup
    IF d.currentChallenge = Null \/ Len(d.frameBuffer) < LD_BaselineFrames - 1
    THEN {LDNeutral}
    ELSE IF d.currentChallenge.type = "blink"
        THEN {FaceMetrics(TRUE, e, FALSE, 0, 0) : e \in {EarOpen, EarClosed}}
    ELSE IF d.currentChallenge.type = "smile"
        THEN {FaceMetrics(TRUE, EarOpen, s, 0, 0) : s \in BOOLEAN}
    ELSE IF d.currentChallenge.type = "turn_head"
        THEN {FaceMetrics(TRUE, EarOpen, FALSE, y, 0) : y \in LDYaws}
    ELSE {FaceMetrics(TRUE, EarOpen, FALSE, 0, p) : p \in LDPitches}

LDSteady(fb) ==
    /\ Changes(fb) <= MaxLDChanges
    \* the face is in view for a whole session or not at all
    /\ \A i \in 1..(Len(fb) - 1) : fb[i].faceDetected = fb[i + 1].faceDetected
    /\ \/ \A i \in 1..(Len(fb) - 1) : fb[i].headPosition.yaw <= fb[i + 1].headPosition.yaw
       \/ \A i \in 1..(Len(fb) - 1) : fb[i].headPosition.yaw >= fb[i + 1].headPosition.yaw
    /\ \/ \A i \in 1..(Len(fb) - 1) : fb[i].headPosition.pitch <= fb[i + 1].headPosition.pitch
       \/ \A i \in 1..(Len(fb) - 1) : fb[i].headPosition.pitch >= fb[i + 1].headPosition.pitch

LDStartSession ==
    /\ \E i \in 1..Len(LD_challenges) :
          /\ ld' = LD_startSession(ld, LD_challenges[i], now)
          /\ ret' = [op |-> "LivenessDetector.startSession", value |-> LD_challenges[i]]
    /\ ldCalls' = ldCalls
    /\ UNCHANGED <<session, faceDataHistory, now, ml, rl, faceBased>>
    /\ UNCHANGED appVars

LDReset ==
    /\ ld' = LD_reset(ld)
    /\ ldCalls' = ldCalls
    /\ ret' = [op |-> "LivenessDetector.reset", value |-> Null,
                from |-> IF LD_isActive(ld) THEN "active" ELSE "idle"]
    /\ UNCHANGED <<session, faceDataHistory, now, ml, rl, faceBased>>
    /\ UNCHANGED appVars

\* processFrame(imageUri) up to its await
LDProcessFrame ==
    /\ IF ld.currentChallenge = Null
       THEN /\ ret' = [op |-> "LivenessDetector.processFrame", value |-> Null]
            /\ ldCalls' = ldCalls
       ELSE /\ ldCalls < MaxInFlight
            /\ ldCalls' = ldCalls + 1
            /\ ret' = ret
    /\ UNCHANGED <<ld, session, faceDataHistory, now, ml, rl, faceBased>>
    /\ UNCHANGED appVars

\* a suspended processFrame call gets its metrics and runs to its end
LDFrameReady ==
    /\ ldCalls > 0
    /\ Len(ld.frameBuffer) < MaxLDFrames
    /\ \E metrics \in LDFramesFor(ld) :
          /\ LDSteady(Append(ld.frameBuffer, metrics))
          /\ LET out == LD_processFrameResumed(ld, now, metrics)
             IN  /\ ld' = out.state
                 /\ ret' = [op |-> "LivenessDetector.processFrame", value |-> out.value,
                            frame |-> metrics]
    /\ ldCalls' = ldCalls - 1
    /\ UNCHANGED <<session, faceDataHistory, now, ml, rl, faceBased>>
    /\ UNCHANGED appVars

\* Date.now() advances while LivenessDetector is in use
LDTick ==
    /\ \E d \in TickSteps : now + d <= MaxLDTime /\ now' = now + d
    /\ UNCHANGED <<session, faceDataHistory, ret, ld, ldCalls, ml, rl, faceBased>>
    /\ UNCHANGED appVars

NextLD == LDStartSession \/ LDProcessFrame \/ LDFrameReady \/ LDReset \/ LDTick

SpecLD == Init /\ [][NextLD]_vars

\* both detectors, one in use at a time (each is owned by one screen)
EnhancedIdle == session = Null
LDIdle == ld = LD_Idle /\ ldCalls = 0

NextDetectors ==
    \/ LDIdle /\ StartSession
    \/ LDIdle /\ Ingest
    \/ LDIdle /\ Reset
    \/ LDIdle /\ Tick
    \/ EnhancedIdle /\ LDStartSession
    \/ EnhancedIdle /\ LDProcessFrame
    \/ EnhancedIdle /\ LDFrameReady
    \/ EnhancedIdle /\ LDReset
    \/ EnhancedIdle /\ ~LDIdle /\ LDTick

SpecDetectors == Init /\ [][NextDetectors]_vars

----------------------------------------------------------------------------
(* MLKitLivenessDetector called frame by frame by the capture screen: every frame
   is stamped with the clock value of its processFrame call, the time between two
   calls is taken at the boundaries of the timing test of a blink; the subject
   shows open, closed or half-open eyes, or no face is found.  The clock is
   followed up to MaxMLTime and over one pause beyond it. *)

MLFrames(t) ==
    {DetectionFrame(TRUE, e, e, t) : e \in {MLEyeOpen, MLEyeClosed, MLEyeHalf}}
        \cup {DetectionFrame(FALSE, 0, 0, t)}

MLStartBlinkChallenge ==
    /\ \E requiredBlinks \in MLRequiredBlinks :
          /\ ml' = ML_startBlinkChallenge(ml, requiredBlinks, now)
          /\ ret' = [op |-> "MLKitLivenessDetector.startBlinkChallenge",
                     value |-> ml'.state.challenge]
    /\ UNCHANGED <<session, faceDataHistory, now, ld, ldCalls, rl, faceBased>>
    /\ UNCHANGED appVars

\* the clock has advanced by gap and processFrame(imageUri) runs
MLProcessFrame ==
    /\ Len(ml.frameHistory) < MaxMLFrames
    /\ \E gap \in MLGaps \cup {MLPause} :
          /\ IF gap = MLPause THEN now <= MaxMLTime ELSE now + gap <= MaxMLTime
          /\ now' = now + gap
          /\ \E frame \in MLFrames(now + gap) :
                LET out == ML_processFrame(ml, now + gap, frame)
                IN  /\ ml' = out.state
                    /\ ret' = [op |-> "MLKitLivenessDetector.processFrame",
                               value |-> out.value, frame |-> frame]
    /\ UNCHANGED <<session, faceDataHistory, ld, ldCalls, rl, faceBased>>
    /\ UNCHANGED appVars

MLReset ==
    /\ ml' = ML_reset(ml)
    /\ ret' = [op |-> "MLKitLivenessDetector.reset", value |-> Null,
                from |-> IF ML_isActive(ml) THEN "active" ELSE "idle"]
    /\ UNCHANGED <<session, faceDataHistory, now, ld, ldCalls, rl, faceBased>>
    /\ UNCHANGED appVars

NextML == MLStartBlinkChallenge \/ MLProcessFrame \/ MLReset

SpecML == Init /\ [][NextML]_vars

----------------------------------------------------------------------------
(* EnhancedLivenessDetector while frames keep arriving and the clock keeps
   advancing: a session is started early enough for all its deadlines to be
   reached by the clock, and it is not reset. *)

\* the durations of the three challenges of a session
SessionDuration == BlinkDuration + TurnDuration + TurnDuration

\* the clock readings are one turn challenge's duration apart
LiveTickStep == TurnDuration

LiveStartSession ==
    /\ now + SessionDuration < MaxLiveTime
    /\ StartSession

LiveTick ==
    /\ now < MaxLiveTime
    /\ now' = now + LiveTickStep
    /\ UNCHANGED <<session, faceDataHistory, ret>>
    /\ UNCHANGED <<otherDetectors, appVars>>

\* the subject moves slowly: at most MaxChanges changes within one challenge's frames
LiveFrame(f) ==
    /\ Changes(Append(faceDataHistory, f)) <= MaxChanges
    /\ ProcessFaceData(f)

LiveIngest == \E f \in FramesFor(session) : LiveFrame(f)

NextLive == LiveStartSession \/ LiveIngest \/ LiveTick

\* the frame interval and the clock never stop
SpecLive == Init /\ [][NextLive]_vars /\ WF_vars(LiveIngest) /\ WF_vars(LiveTick)

----------------------------------------------------------------------------
(* RealLivenessDetector: the gestures the challenge asks for are recorded while
   the clock advances; the recording calls take the clock reading of the call. *)

\* the interaction types a challenge asks for
RLInteractionsFor(challenge) ==
    IF challenge = Null THEN {"tap"}
    ELSE IF challenge.type = "tap_sequence" THEN {"tap"}
    ELSE IF challenge.type = "hold_and_release" THEN {"touch_start", "touch_end"}
    ELSE {}

RLStartSession ==
    /\ \E i \in 1..Len(RL_challenges) :
          /\ rl' = RL_startSession(rl, RL_challenges[i], now)
          /\ ret' = [op |-> "RealLivenessDetector.startSession",
                     value |-> rl'.currentChallenge]
    /\ UNCHANGED <<session, faceDataHistory, now, ld, ldCalls, ml, faceBased>>
    /\ UNCHANGED appVars

RLRecordInteraction ==
    /\ Len(rl.interactionLog) < MaxRecords
    /\ \E type \in RLInteractionsFor(rl.currentChallenge) :
          rl' = RL_recordInteraction(rl, type, now)
    /\ ret' = [op |-> "RealLivenessDetector.recordInteraction", value |-> Null]
    /\ UNCHANGED <<session, faceDataHistory, now, ld, ldCalls, ml, faceBased>>
    /\ UNCHANGED appVars

RLRecordSensorData ==
    /\ Len(rl.accelerometer) < MaxRecords
    /\ rl.currentChallenge # Null => rl.currentChallenge.type = "shake_device"
    /\ rl' = RL_recordSensorData(rl, now)
    /\ ret' = [op |-> "RealLivenessDetector.recordSensorData", value |-> Null]
    /\ UNCHANGED <<session, faceDataHistory, now, ld, ldCalls, ml, faceBased>>
    /\ UNCHANGED appVars

RLRecordBrightnessChange ==
    /\ Len(rl.brightnessHistory) < MaxRecords
    /\ rl.currentChallenge # Null => rl.currentChallenge.type = "brightness_change"
    /\ rl' = RL_recordBrightnessChange(rl, now)
    /\ ret' = [op |-> "RealLivenessDetector.recordBrightnessChange", value |-> Null]
    /\ UNCHANGED <<session, faceDataHistory, now, ld, ldCalls, ml, faceBased>>
    /\ UNCHANGED appVars

RLReset ==
    /\ rl' = RL_reset(rl)
    /\ ret' = [op |-> "RealLivenessDetector.reset", value |-> Null]
    /\ UNCHANGED <<session, faceDataHistory, now, ld, ldCalls, ml, faceBased>>
    /\ UNCHANGED appVars

\* Date.now() advances while RealLivenessDetector is in use
RLTick ==
    /\ now + RLTickStep <= MaxRLTime
    /\ now' = now + RLTickStep
    /\ UNCHANGED <<session, faceDataHistory, ret, ld, ldCalls, ml, rl, faceBased>>
    /\ UNCHANGED appVars

NextReal ==
    RLStartSession \/ RLRecordInteraction \/ RLRecordSensorData
        \/ RLRecordBrightnessChange \/ RLReset \/ RLTick

SpecReal == Init /\ [][NextReal]_vars

----------------------------------------------------------------------------
(* Long streams of frames for the three frame-driven detectors, one detector in
   use at a time.  The clock reading does not change while a stream runs, so no
   deadline passes and each history is filled beyond its capacity. *)

MLIdle == ml = ML_Idle

\* a suspended LivenessDetector.processFrame call of the stream runs to its end
LDStreamReady ==
    /\ ldCalls > 0
    /\ \E metrics \in LDFramesFor(ld) :
          /\ Changes(Append(ld.frameBuffer, metrics)) <= MaxStreamChanges
          /\ LDSteady(Append(ld.frameBuffer, metrics))
          /\ LET out == LD_processFrameResumed(ld, now, metrics)
             IN  /\ ld' = out.state
                 /\ ret' = [op |-> "LivenessDetector.processFrame", value |-> out.value,
                            frame |-> metrics]
    /\ ldCalls' = ldCalls - 1
    /\ UNCHANGED <<session, faceDataHistory, now, ml, rl, faceBased>>
    /\ UNCHANGED appVars

\* the frames of the stream: the subject keeps the eyes open, a face is found or not
MLStreamFrames(t) ==
    {DetectionFrame(TRUE, MLEyeOpen, MLEyeOpen, t), DetectionFrame(FALSE, 0, 0, t)}

\* MLKitLivenessDetector.processFrame of the stream
MLStreamFrame ==
    /\ \E frame \in MLStreamFrames(now) :
          /\ Changes(Append(ml.frameHistory, frame)) <= MaxStreamChanges
          /\ LET out == ML_processFrame(ml, now, frame)
             IN  /\ ml' = out.state
                 /\ ret' = [op |-> "MLKitLivenessDetector.processFrame",
                            value |-> out.value, frame |-> frame]
    /\ UNCHANGED <<session, faceDataHistory, now, ld, ldCalls, rl, faceBased>>
    /\ UNCHANGED appVars

NextHistory ==
    \/ LDIdle /\ MLIdle /\ StartSession
    \/ LDIdle /\ MLIdle /\ IngestStream
    \/ LDIdle /\ MLIdle /\ Reset
    \/ EnhancedIdle /\ MLIdle /\ LDStartSession
    \/ EnhancedIdle /\ MLIdle /\ LDProcessFrame
    \/ EnhancedIdle /\ MLIdle /\ LDStreamReady
    \/ EnhancedIdle /\ MLIdle /\ LDReset
    \/ EnhancedIdle /\ LDIdle /\ MLStartBlinkChallenge
    \/ EnhancedIdle /\ LDIdle /\ MLStreamFrame
    \/ EnhancedIdle /\ LDIdle /\ MLReset

SpecHistory == Init /\ [][NextHistory]_vars

----------------------------------------------------------------------------
(* The screens of src/app and their navigation *)

Screen == stack[Len(stack)]
Mounted(route) == \E i \in 1..Len(stack) : stack[i] = route

\* router.push(route)
Push(route) == Append(stack, route)
\* router.replace(route)
Replace(route) == [stack EXCEPT ![Len(stack)] = route]
\* router.back()
Back == SubSeq(stack, 1, Len(stack) - 1)

\* the steps of LivenessCheck.moveToNextStep
steps == << "blink", "smile", "turn_left", "turn_right", "completed" >>
indexOf(step) == CHOOSE i \in 1..Len(steps) : steps[i] = step
StepScore == 25
PassScore == 80

\* the state a freshly mounted LivenessCheck starts from
LivenessCheckMounts ==
    /\ currentStep' = "blink"
    /\ stepCompleted' = FALSE
    /\ isProcessing' = FALSE
    /\ livenessScore' = 0
    /\ lcError' = FALSE
    /\ timers' = {}

\* PhoneInput.handleSendOtp, sendOtp answering success
handleSendOtp ==
    /\ Screen = "PhoneInput" /\ dialog = "none"
    /\ Len(stack) < MaxStack
    /\ stack' = Push("OtpVerification")
    /\ UNCHANGED <<otpVerified, navTimer, dialog, capturedImage, selfieCompleted>>
    /\ UNCHANGED lcVars
    /\ UNCHANGED detVars

\* OtpVerification.handleVerifyOtp, verifyOtp answering success
handleVerifyOtp ==
    /\ Screen = "OtpVerification" /\ dialog = "none"
    /\ otpVerified' = TRUE
    /\ navTimer' = TRUE
    /\ UNCHANGED <<stack, dialog, capturedImage, selfieCompleted>>
    /\ UNCHANGED lcVars
    /\ UNCHANGED detVars

\* the setTimeout of handleVerifyOtp: router.push('./SelfieCapture')
OtpNavigates ==
    /\ navTimer
    /\ Len(stack) < MaxStack /\ ~Mounted("SelfieCapture")
    /\ navTimer' = FALSE
    /\ stack' = Push("SelfieCapture")
    /\ capturedImage' = FALSE
    /\ UNCHANGED <<otpVerified, dialog, selfieCompleted>>
    /\ UNCHANGED lcVars
    /\ UNCHANGED detVars

\* OtpVerification.handleBackToPhone
handleBackToPhone ==
    /\ Screen = "OtpVerification" /\ dialog = "none"
    /\ Len(stack) > 1
    /\ stack' = Back
    /\ UNCHANGED <<otpVerified, navTimer, dialog, capturedImage, selfieCompleted>>
    /\ UNCHANGED lcVars
    /\ UNCHANGED detVars

\* the route /LivenessCheck is opened after the OTP step (README, Usage Flow step 4)
OpenLivenessCheck ==
    /\ Screen = "OtpVerification" /\ dialog = "none"
    /\ Len(stack) < MaxStack
    /\ ~Mounted("LivenessCheck") /\ ~Mounted("SelfieCapture")
    /\ stack' = Push("LivenessCheck")
    /\ LivenessCheckMounts
    /\ UNCHANGED <<otpVerified, navTimer, dialog, capturedImage, selfieCompleted>>
    /\ UNCHANGED detVars

\* LivenessCheck.simulateLivenessDetection: the press of "Start Check"; the timeout
\* it sets closes over the currentStep and livenessScore of this render
simulateLivenessDetection ==
    /\ Screen = "LivenessCheck" /\ dialog = "none"
    /\ currentStep # "completed" /\ ~isProcessing /\ ~stepCompleted
    /\ isProcessing' = TRUE
    /\ lcError' = FALSE
    /\ timers' = timers \cup {[kind |-> "detect", step |-> currentStep,
                                score |-> livenessScore]}
    /\ UNCHANGED <<currentStep, stepCompleted, livenessScore>>
    /\ UNCHANGED <<stack, otpVerified, navTimer, dialog, capturedImage, selfieCompleted>>
    /\ UNCHANGED detVars

\* the 2000 ms callback of simulateLivenessDetection; success is Math.random() > 0.2
DetectionDone(tm, success) ==
    /\ Mounted("LivenessCheck")
    /\ tm \in timers /\ tm.kind = "detect"
    /\ IF success
       THEN /\ stepCompleted' = TRUE
            /\ livenessScore' = livenessScore + StepScore
            /\ timers' = (timers \ {tm}) \cup {[tm EXCEPT !.kind = "next"]}
            /\ UNCHANGED lcError
       ELSE /\ lcError' = TRUE
            /\ timers' = timers \ {tm}
            /\ UNCHANGED <<stepCompleted, livenessScore>>
    /\ isProcessing' = FALSE
    /\ UNCHANGED currentStep
    /\ UNCHANGED <<stack, otpVerified, navTimer, dialog, capturedImage, selfieCompleted>>
    /\ UNCHANGED detVars

\* LivenessCheck.moveToNextStep, run by the 1000 ms timeout, and the
\* handleLivenessComplete it calls after the last step
moveToNextStep(tm) ==
    /\ Mounted("LivenessCheck")
    /\ tm \in timers /\ tm.kind = "next"
    /\ timers' = timers \ {tm}
    /\ LET currentIndex == indexOf(tm.step)
       IN  IF currentIndex < Len(steps)
           THEN /\ currentStep' = steps[currentIndex + 1]
                /\ stepCompleted' = FALSE
                /\ UNCHANGED dialog
           ELSE /\ dialog' = IF tm.score >= PassScore THEN "passed" ELSE "failed"
                /\ UNCHANGED <<currentStep, stepCompleted>>
    /\ UNCHANGED <<isProcessing, livenessScore, lcError>>
    /\ UNCHANGED <<stack, otpVerified, navTimer, capturedImage, selfieCompleted>>
    /\ UNCHANGED detVars

\* The buttons of the two dialogs of handleLivenessComplete. moveToNextStep reaches
\* handleLivenessComplete only from the step "completed", where "Start Check" is
\* not rendered, so neither dialog is ever shown and NextApp does not list them.

\* "Continue" of the pass dialog of handleLivenessComplete
PassContinue ==
    /\ dialog = "passed"
    /\ Len(stack) < MaxStack /\ ~Mounted("SelfieCapture")
    /\ dialog' = "none"
    /\ stack' = Push("SelfieCapture")
    /\ capturedImage' = FALSE
    /\ UNCHANGED <<otpVerified, navTimer, selfieCompleted>>
    /\ UNCHANGED lcVars
    /\ UNCHANGED detVars

\* "Retry" of the fail dialog of handleLivenessComplete
FailRetry ==
    /\ dialog = "failed"
    /\ dialog' = "none"
    /\ currentStep' = "blink"
    /\ livenessScore' = 0
    /\ stepCompleted' = FALSE
    /\ lcError' = FALSE
    /\ UNCHANGED <<isProcessing, timers>>
    /\ UNCHANGED <<stack, otpVerified, navTimer, capturedImage, selfieCompleted>>
    /\ UNCHANGED detVars

\* LivenessCheck.handleSkipForDemo: the press of "Skip (Demo Only)"
handleSkipForDemo ==
    /\ Screen = "LivenessCheck" /\ dialog = "none"
    /\ dialog' = "skip"
    /\ UNCHANGED <<stack, otpVerified, navTimer, capturedImage, selfieCompleted>>
    /\ UNCHANGED lcVars
    /\ UNCHANGED detVars

\* the buttons of the skip dialog
SkipDialog(skip) ==
    /\ dialog = "skip"
    /\ dialog' = "none"
    /\ IF skip
       THEN /\ Len(stack) < MaxStack /\ ~Mounted("SelfieCapture")
            /\ stack' = Push("SelfieCapture")
            /\ capturedImage' = FALSE
       ELSE UNCHANGED <<stack, capturedImage>>
    /\ UNCHANGED <<otpVerified, navTimer, selfieCompleted>>
    /\ UNCHANGED lcVars
    /\ UNCHANGED detVars

\* SelfieCapture.takePicture with the camera ready and a photo returned
takePicture ==
    /\ Screen = "SelfieCapture" /\ dialog = "none"
    /\ ~capturedImage
    /\ capturedImage' = TRUE
    /\ UNCHANGED <<stack, otpVerified, navTimer, dialog, selfieCompleted>>
    /\ UNCHANGED lcVars
    /\ UNCHANGED detVars

\* SelfieCapture.retakePicture
retakePicture ==
    /\ Screen = "SelfieCapture" /\ dialog = "none"
    /\ capturedImage
    /\ capturedImage' = FALSE
    /\ UNCHANGED <<stack, otpVerified, navTimer, dialog, selfieCompleted>>
    /\ UNCHANGED lcVars
    /\ UNCHANGED detVars

\* SelfieCapture.uploadSelfie with the upload answering success
uploadSelfie ==
    /\ Screen = "SelfieCapture" /\ dialog = "none"
    /\ capturedImage /\ otpVerified
    /\ selfieCompleted' = TRUE
    /\ stack' = Replace("Home")
    /\ UNCHANGED <<otpVerified, navTimer, dialog, capturedImage>>
    /\ UNCHANGED lcVars
    /\ UNCHANGED detVars

\* SelfieCapture.goBack
goBack ==
    /\ Screen = "SelfieCapture" /\ dialog = "none"
    /\ Len(stack) > 1
    /\ stack' = Back
    /\ capturedImage' = FALSE
    /\ UNCHANGED <<otpVerified, navTimer, dialog, selfieCompleted>>
    /\ UNCHANGED lcVars
    /\ UNCHANGED detVars

\* Home.handleLogout confirmed: SecureStorage.clearAll() and router.replace('/')
handleLogout ==
    /\ Screen = "Home" /\ dialog = "none"
    /\ otpVerified' = FALSE
    /\ selfieCompleted' = FALSE
    /\ capturedImage' = FALSE
    /\ stack' = Replace("PhoneInput")
    /\ UNCHANGED <<navTimer, dialog>>
    /\ UNCHANGED lcVars
    /\ UNCHANGED detVars

NextApp ==
    \/ handleSendOtp
    \/ handleVerifyOtp
    \/ OtpNavigates
    \/ handleBackToPhone
    \/ OpenLivenessCheck
    \/ simulateLivenessDetection
    \/ \E tm \in timers, success \in BOOLEAN : DetectionDone(tm, success)
    \/ \E tm \in timers : moveToNextStep(tm)
    \/ handleSkipForDemo
    \/ \E skip \in BOOLEAN : SkipDialog(skip)
    \/ takePicture
    \/ retakePicture
    \/ uploadSelfie
    \/ goBack
    \/ handleLogout

SpecApp == Init /\ [][NextApp]_vars

\* the timeouts of OtpVerification and LivenessCheck fire once they are set; a
\* button is pressed when the user chooses to
SpecAppLive ==
    /\ Init /\ [][NextApp]_vars
    /\ WF_vars(OtpNavigates)
    /\ WF_vars(\E tm \in timers, success \in BOOLEAN : DetectionDone(tm, success))
    /\ WF_vars(\E tm \in timers : moveToNextStep(tm))

----------------------------------------------------------------------------
(* Properties of the navigation *)

\* the LivenessCheck screen was opened and all of its four steps were passed
LivenessVerified ==
    /\ Mounted("LivenessCheck")
    /\ currentStep = "completed"
    /\ livenessScore >= PassScore

\* C2: a selfie is captured only after the liveness check has ended with every
\* required step passed; never while it failed, is incomplete or was not attempted.
C2_SelfieOnlyAfterLiveness == capturedImage => LivenessVerified

----------------------------------------------------------------------------
(* Properties of EnhancedLivenessDetector *)

Last(q) == q[Len(q)]
FailedResults(s) == {i \in 1..Len(s.results) : ~s.results[i].success}
SuccessfulResults(s) == {i \in 1..Len(s.results) : s.results[i].success}
HasFailed(s) == s # Null /\ FailedResults(s) # {}
IsResult(v) == v # Null /\ "success" \in DOMAIN v
IsTimeoutFailure(v) ==
    IsResult(v) /\ ~v.success /\ v.errorMessage = "Challenge timed out"
\* the time elapsed on the current challenge of an active session
Elapsed(s, t) == t - getCurrentChallenge(s).startTime
\* a step of processFaceData on the session that exists before it
IngestsFrame(f) == ProcessFaceData(f) /\ session # Null
\* would the frame last recorded satisfy the gesture of challenge c
SatisfiesGesture(c, h) ==
    IF c.type = "blink"
    THEN Len(h) >= MinBlinkFrames /\ detectBlink(LastN(h, BlinkWindow))
    ELSE Len(h) >= MinTurnFrames
         /\ turnDetected(Last(h), getBaselineHeadPosition(h),
                         IF c.type = "turn_left" THEN "left" ELSE "right")

\* C1: once a failed result has been appended the session is inactive, the failed
\* result is the last and the only failed one, and processFaceData neither starts
\* nor evaluates a challenge until startSession is called again.
C1_FailureEndsSession ==
    /\ [](HasFailed(session) =>
            /\ ~session.isActive
            /\ ~Last(session.results).success
            /\ Cardinality(FailedResults(session)) = 1)
    /\ [][\A f \in AllFrames :
            (ProcessFaceData(f) /\ HasFailed(session)) =>
                /\ session' = session
                /\ faceDataHistory' = faceDataHistory
                /\ ret'.value = Null]_vars

\* a frame was offered to a session that had failed after an earlier success
C1_Witness ==
    /\ HasFailed(session)
    /\ Len(session.results) >= 2
    /\ ret = [op |-> "processFaceData", value |-> Null]

\* C3: within one session currentChallengeIndex never decreases over
\* processFaceData calls and never exceeds challenges.length.
C3_IndexMonotone ==
    /\ [](session # Null => session.currentChallengeIndex <= Len(session.challenges))
    /\ [][\A f \in AllFrames :
            IngestsFrame(f) =>
                /\ session'.currentChallengeIndex >= session.currentChallengeIndex
                /\ session'.currentChallengeIndex <= Len(session'.challenges)]_vars

\* the index has reached challenges.length through processFaceData
C3_Witness ==
    /\ session # Null
    /\ session.currentChallengeIndex = Len(session.challenges)
    /\ ret.op = "processFaceData"

\* C4: a session is inactive exactly when every challenge has a successful result
\* or some result has failed.
C4_InactiveIffCompleteOrFailed ==
    session # Null =>
        (~session.isActive <=> (isSessionComplete(session) \/ HasFailed(session)))

\* a session that became inactive by completing its last challenge
C4_Witness ==
    /\ session # Null
    /\ ~session.isActive
    /\ isSessionComplete(session)
    /\ ~HasFailed(session)

\* C5: a succeeding challenge appends its result and advances the index by one in
\* the same step; with challenges remaining the history is emptied and the next
\* challenge's clock starts at that moment, after the last one the session is
\* inactive and complete.
C5_SuccessAdvances ==
    [][\A f \in AllFrames :
        (IngestsFrame(f) /\ IsResult(ret'.value) /\ ret'.value.success) =>
            /\ session'.results = Append(session.results, ret'.value)
            /\ session'.currentChallengeIndex = session.currentChallengeIndex + 1
            /\ IF session'.currentChallengeIndex < Len(session'.challenges)
               THEN /\ faceDataHistory' = << >>
                    /\ session'.isActive
                    /\ getCurrentChallenge(session').startTime = now
               ELSE /\ ~session'.isActive
                    /\ isSessionComplete(session')]_vars

\* a challenge has just succeeded at a clock value other than the session's start,
\* and the next one is running on an empty history
C5_Witness ==
    /\ IsResult(ret.value) /\ ret.value.success
    /\ isActive(session)
    /\ session.currentChallengeIndex = 2
    /\ faceDataHistory = << >>
    /\ getCurrentChallenge(session).startTime > session.startTime

\* C6 as stated: a frame ingested at or after the deadline (elapsed >= duration)
\* yields a failed result with the timeout reason and ends the session.
C6_TimeoutAtDeadline ==
    [][\A f \in AllFrames :
        (ProcessFaceData(f) /\ isActive(session)
            /\ Elapsed(session, now) >= getCurrentChallenge(session).duration) =>
                /\ IsTimeoutFailure(ret'.value)
                /\ ~session'.isActive]_vars

\* C6 amended: a frame ingested by an active session yields the timeout failure,
\* and ends the session, exactly when elapsed > duration; at elapsed = duration the
\* frame is still evaluated.
C6_TimeoutAfterDeadline ==
    [][\A f \in AllFrames :
        (ProcessFaceData(f) /\ isActive(session)) =>
            IF Elapsed(session, now) > getCurrentChallenge(session).duration
            THEN /\ IsTimeoutFailure(ret'.value)
                 /\ Last(session'.results) = ret'.value
                 /\ ~session'.isActive
            ELSE ~IsTimeoutFailure(ret'.value)]_vars

\* a blink challenge has timed out
C6_Witness ==
    /\ IsTimeoutFailure(ret.value)
    /\ ret.value.challengeType = "blink"
    /\ ret.value.completionTime > BlinkDuration
    /\ session # Null /\ ~session.isActive

C8_FaceLossIsTransient ==
    [][\A f \in AllFrames :
        (ProcessFaceData(f) /\ isActive(session) /\ ~f.faceDetected
            /\ Elapsed(session, now) <= getCurrentChallenge(session).duration) =>
                /\ ret'.value = Null
                /\ session'.isActive]_vars

C10_InactiveIngestMutatesNothing ==
    [][\A f \in AllFrames :
        (ProcessFaceData(f) /\ ~isActive(session)) =>
            /\ session' = session
            /\ faceDataHistory' = faceDataHistory]_vars

\* processFaceData was called on a completed session
C10_Witness ==
    /\ session # Null /\ ~session.isActive
    /\ isSessionComplete(session)
    /\ faceDataHistory # << >>
    /\ ret = [op |-> "processFaceData", value |-> Null]

----------------------------------------------------------------------------
(* Session replacement, reset and the summary *)

\* C11: startSession on an active session replaces it with a fresh one: no
\* results, currentChallengeIndex 0, empty history, active, the first challenge's
\* clock restarted at the current time, and nothing of the earlier session left.
C11_StartSessionReplaces ==
    [][(StartSession /\ isActive(session)) =>
          /\ session'.results = << >>
          /\ session'.currentChallengeIndex = 0
          /\ faceDataHistory' = << >>
          /\ isActive(session')
          /\ getCurrentChallenge(session').type = "blink"
          /\ getCurrentChallenge(session').startTime = now
          /\ session'.startTime = now
          /\ getProgress(session') = 0
          /\ \A i \in 1..Len(session'.challenges) : ~session'.challenges[i].completed]_vars

\* startSession was called on an active session after the clock had advanced
C11_Witness ==
    /\ ret.op = "startSession" /\ ret.replaced
    /\ isActive(session)
    /\ session.results = << >>
    /\ faceDataHistory = << >>
    /\ session.startTime > 0

\* C14: getSessionSummary().overallSuccess is true exactly when the successful
\* results are as many as the challenges and no failed result is present; it is
\* never true while failedChallenges > 0.
C14_OverallSuccessExact ==
    session # Null =>
        LET summary == getSessionSummary(session, now)
        IN  /\ summary.overallSuccess <=>
                  (/\ Cardinality(SuccessfulResults(session)) = Len(session.challenges)
                   /\ FailedResults(session) = {})
            /\ summary.failedChallenges > 0 => ~summary.overallSuccess
            /\ summary.failedChallenges = Cardinality(FailedResults(session))

\* a session whose three challenges succeeded, and one that failed after two successes
C14_Witness ==
    /\ session # Null
    /\ getSessionSummary(session, now).overallSuccess
    /\ getSessionSummary(session, now).completedChallenges = 3

----------------------------------------------------------------------------
(* Head turns of EnhancedLivenessDetector *)

IsTurn(c) == c # Null /\ c.type \in {"turn_left", "turn_right"}
\* n times the displacement of frame f from the baseline [sum, n]
DisplacementN(f, baseline) == f.headYaw * baseline.n - baseline.sum
\* the baseline the detector reads when the history is h
BaselineOf(h) == getBaselineHeadPosition(h)
SameBaseline(b1, b2) == b1.sum * b2.n = b2.sum * b1.n

\* C18: a turn_left challenge completes only on a frame whose yaw is below the
\* baseline by strictly more than HEAD_TURN_THRESHOLD, a turn_right challenge only
\* on a frame above it by strictly more; a displacement equal to the threshold,
\* or one to the other side, leaves the challenge pending.
C18_TurnThresholdStrict ==
    [][\A f \in AllFrames :
        (CallProcessFaceData(f) /\ IsTurn(getCurrentChallenge(session))) =>
            LET c == getCurrentChallenge(session)
                b == BaselineOf(PushFrame(faceDataHistory, f))
                completes == IsResult(ret'.value) /\ ret'.value.success
            IN  /\ (completes /\ c.type = "turn_left") =>
                        DisplacementN(f, b) < (0 - HEAD_TURN_THRESHOLD) * b.n
                /\ (completes /\ c.type = "turn_right") =>
                        DisplacementN(f, b) > HEAD_TURN_THRESHOLD * b.n]_vars

\* the left turn was completed, and the right turn is pending on a frame that is
\* exactly the threshold to the right of the baseline
C18_Witness ==
    /\ isActive(session)
    /\ getCurrentChallenge(session).type = "turn_right"
    /\ session.results[2].success
    /\ ret = [op |-> "processFaceData", value |-> Null]
    /\ Len(faceDataHistory) > BaselineFrames
    /\ DisplacementN(Last(faceDataHistory), BaselineOf(faceDataHistory))
           = HEAD_TURN_THRESHOLD * BaselineOf(faceDataHistory).n

\* C20 as stated: once the baseline has been used for a head-turn challenge, every
\* later frame of that challenge is compared against the same baseline value.
C20_BaselineFixed ==
    [][\A f \in AllFrames :
        (/\ CallProcessFaceData(f)
         /\ IsTurn(getCurrentChallenge(session))
         /\ Len(faceDataHistory) >= MinTurnFrames
         /\ isActive(session')
         /\ session'.currentChallengeIndex = session.currentChallengeIndex) =>
            SameBaseline(BaselineOf(faceDataHistory'), BaselineOf(faceDataHistory))]_vars

----------------------------------------------------------------------------
(* Properties of reset and of LivenessDetector *)

\* C12: reset(), in whichever state it is called, leaves the detector idle with
\* all in-progress data discarded together: no session, empty frame history,
\* isActive() false, getCurrentChallenge() null and getProgress() 0; for
\* LivenessDetector no challenge, no baseline, empty buffers and progress 0.
C12_ResetLeavesIdle ==
    /\ ret.op = "reset" =>
          /\ session = Null
          /\ faceDataHistory = << >>
          /\ ~isActive(session)
          /\ getCurrentChallenge(session) = Null
          /\ getProgress(session) = 0
    /\ ret.op = "LivenessDetector.reset" =>
          /\ ld.currentChallenge = Null
          /\ ld.challengeStartTime = 0
          /\ ld.baselineMetrics = Null
          /\ ld.frameBuffer = << >>
          /\ ld.blinkSequence = << >>
          /\ ld.headMovements = << >>
          /\ ~LD_isActive(ld)
          /\ LD_getProgress(ld, now) = 0

\* reset was called on a completed session
C12_Witness ==
    /\ ret.op = "reset"
    /\ ret.from = "completed"
    /\ session = Null

\* C13 as stated, for reset: a processFrame call that was suspended when reset ran
\* leaves, when it resumes, the detector as reset left it, and yields nothing.
C13_ResetIsAtomic ==
    [][(LDFrameReady /\ ~LD_isActive(ld)) =>
            /\ ld' = ld
            /\ ret'.value = Null]_vars

----------------------------------------------------------------------------
(* Properties of MLKitLivenessDetector *)

\* the eye state a frame shows
MLEyeStateOf(frame) ==
    IF frame.leftEyeOpenProbability = MLEyeOpen THEN "open"
    ELSE IF frame.leftEyeOpenProbability = MLEyeClosed THEN "closed"
    ELSE "unknown"

\* this step is a processFrame call that analyses the eyes of a detected face
MLEyesProcessed ==
    /\ ML_isActive(ml)
    /\ ret'.op = "MLKitLivenessDetector.processFrame"
    /\ now' - ml.state.startTime <= ML_TimeoutMs
    /\ ret'.frame.faceDetected
    /\ MLEyeStateOf(ret'.frame) # "unknown"

\* the eye states recorded up to and including the frame of this step
MLSequenceAfter ==
    Append(ml.blinkSequence, [timestamp |-> now', state |-> MLEyeStateOf(ret'.frame)])

\* the blinks counted when this step has run (a result empties the state)
MLBlinksAfter ==
    IF IsResult(ret'.value) THEN ret'.value.completedBlinks ELSE ml'.state.completedBlinks

\* entry i of seq reopens the eyes after one closed entry that followed an open one
IsCycleEnd(seq, i) ==
    /\ i >= 3 /\ i <= Len(seq)
    /\ seq[i - 2].state = "open"
    /\ seq[i - 1].state = "closed"
    /\ seq[i].state = "open"

\* the open, closed, open cycles of seq
Cycles(seq) == {i \in 1..Len(seq) : IsCycleEnd(seq, i)}

\* C15: the blinks counted never exceed the open, closed, open cycles the user has
\* performed, and a blink challenge succeeds only after requiredBlinks such cycles
C15_OneCountPerCycle ==
    [][MLEyesProcessed =>
          /\ MLBlinksAfter <= Cardinality(Cycles(MLSequenceAfter))
          /\ (IsResult(ret'.value) /\ ret'.value.success)
                 => Cardinality(Cycles(MLSequenceAfter)) >= ret'.value.requiredBlinks]_vars

\* the sequence ends with open, one or more closed, open entries
EndsWithBlink(seq) ==
    /\ Len(seq) >= 3
    /\ seq[Len(seq)].state = "open"
    /\ \E j \in 1..(Len(seq) - 2) :
          /\ seq[j].state = "open"
          /\ \A k \in (j + 1)..(Len(seq) - 1) : seq[k].state = "closed"

\* the open entry before the closed entries that end with the last entry
BlinkStart(seq) ==
    CHOOSE j \in 1..(Len(seq) - 2) :
        /\ seq[j].state = "open"
        /\ \A k \in (j + 1)..(Len(seq) - 1) : seq[k].state = "closed"

\* a duration of natural blink timing
NaturalBlinkMs(d) == d >= ML_MinBlinkMs /\ d <= ML_MaxBlinkMs

\* the blink that ends the sequence has natural timing, measured from the open
\* frame before it as well as from its first closed frame
NaturalBlink(seq) ==
    /\ NaturalBlinkMs(seq[Len(seq)].timestamp - seq[BlinkStart(seq)].timestamp)
    /\ NaturalBlinkMs(seq[Len(seq)].timestamp - seq[BlinkStart(seq) + 1].timestamp)

\* C16: open frames, one or more closed frames and open frames again, with natural
\* timing, are recognised as a blink, and the blink that completes the challenge
\* yields a successful result with confidence above 0
C16_BlinkRecognised ==
    [][(MLEyesProcessed /\ EndsWithBlink(MLSequenceAfter) /\ NaturalBlink(MLSequenceAfter)) =>
          /\ MLBlinksAfter > ml.state.completedBlinks
          /\ MLBlinksAfter >= ml.state.challenge.requiredBlinks
                 => /\ IsResult(ret'.value)
                    /\ ret'.value.success
                    /\ ret'.value.confidence > 0]_vars

\* the step counts a blink
MLBlinkCounted == MLBlinksAfter = ml.state.completedBlinks + 1

TimedCycles(seq) ==
    {i \in Cycles(seq) : /\ i - 2 > Len(seq) - ML_RecentStates
                         /\ NaturalBlinkMs(seq[i].timestamp - seq[i - 2].timestamp)}

----------------------------------------------------------------------------
(* FaceBasedLivenessDetector wired as FaceBasedLivenessCapture wires it: the
   camera's face-detection callback calls processFaceDetection, dispatch feeds
   detectionReducer, and an effect hands the new reducer state to updateState.
   The effect runs some time after the dispatch; up to MaxStale callbacks run
   before it.  During a nod the head rolls slowly. *)

FB_Faces ==
    LET centred == [minX |-> 100, minY |-> 100, width |-> 150, height |-> 150]
        outside == [minX |-> 0, minY |-> 100, width |-> 150, height |-> 150]
        close == [minX |-> 30, minY |-> 60, width |-> 300, height |-> 300]
        FaceDetection(bounds, eyes, yaw, roll, smiling) ==
            [bounds |-> bounds, leftEyeOpenProbability |-> eyes,
             rightEyeOpenProbability |-> eyes, yawAngle |-> yaw, rollAngle |-> roll,
             smilingProbability |-> smiling]
        neutral == FaceDetection(centred, 90, 0, 0, 10)
    IN  {<< >>, <<neutral, neutral>>}
            \cup {<<face>> : face \in {neutral,
                                      FaceDetection(outside, 90, 0, 0, 10),
                                      FaceDetection(close, 90, 0, 0, 10),
                                      FaceDetection(centred, 10, 0, 0, 10),
                                      FaceDetection(centred, 90, 0 - 200, 0, 10),
                                      FaceDetection(centred, 90, 200, 0, 10),
                                      FaceDetection(centred, 90, 0, 30, 10),
                                      FaceDetection(centred, 90, 0, 0, 90)}}

FBFacesDetected ==
    \E faces \in FB_Faces :
        LET out == FB_processFaceDetection(faceBased, faces)
        IN  /\ faceBased.stale < MaxStale
            /\ Changes(out.rollAngles) <= MaxStreamChanges
            /\ faceBased' = [out EXCEPT !.stale = IF Len(faces) > 1 THEN @ ELSE @ + 1]
            /\ ret' = [op |-> "FaceBasedLivenessDetector.processFaceDetection",
                       value |-> Null, frame |-> faces]
            /\ UNCHANGED <<session, faceDataHistory, now, ld, ldCalls, ml, rl>>
            /\ UNCHANGED appVars

\* the effect of the component: detectorRef.current.updateState(state)
FBUpdateState ==
    /\ faceBased.stale > 0
    /\ faceBased' = FB_updateState(faceBased, faceBased.state)
    /\ ret' = [op |-> "FaceBasedLivenessDetector.updateState", value |-> Null]
    /\ UNCHANGED <<session, faceDataHistory, now, ld, ldCalls, ml, rl>>
    /\ UNCHANGED appVars

FBReset ==
    /\ faceBased' = [FB_reset(faceBased) EXCEPT !.stale = 0]
    /\ ret' = [op |-> "FaceBasedLivenessDetector.reset", value |-> Null]
    /\ UNCHANGED <<session, faceDataHistory, now, ld, ldCalls, ml, rl>>
    /\ UNCHANGED appVars

NextFace == FBFacesDetected \/ FBUpdateState \/ FBReset

SpecFace == Init /\ [][NextFace]_vars

----------------------------------------------------------------------------
(* Properties of the frame histories, the challenge order and getProgress *)

\* no frame of the running LivenessDetector session showed a face
LDNoFaceSeen ==
    /\ ld.currentChallenge # Null
    /\ Len(ld.frameBuffer) > 0
    /\ \A i \in 1..Len(ld.frameBuffer) : ~ld.frameBuffer[i].faceDetected

\* C21: while every frame of a LivenessDetector session has faceDetected = false,
\* the baseline stays unset and processFrame returns no result
C21_NoFaceNoBaseline ==
    LDNoFaceSeen =>
        /\ ld.baselineMetrics = Null
        /\ ret.op = "LivenessDetector.processFrame" => ~IsResult(ret.value)

\* h1 is h with x pushed at its end, the oldest frame evicted when h was full,
\* and the arrival order of the frames kept
FifoPush(h, x, h1, size) ==
    /\ Len(h1) = Min(Len(h) + 1, size)
    /\ h1[Len(h1)] = x
    /\ \A i \in 1..(Len(h1) - 1) : h1[i] = h[i + Len(h) + 1 - Len(h1)]

\* the call this step returns from is the processFrame named ingestion, which
\* analysed a frame
Ingested(ingestion) == ret'.op = ingestion /\ "frame" \in DOMAIN ret'

\* a history that changed was emptied or took the frame of an ingestion in FIFO
\* order; a history that did not change although its detector, in use, returned
\* from another ingestion was full of that frame
HistoryStep(h, h1, size, ingestion, inUse) ==
    /\ Len(h1) <= size
    /\ IF h1 = h
       THEN (ret' # ret /\ inUse /\ Ingested(ingestion)) => FifoPush(h, ret'.frame, h, size)
       ELSE h1 = << >> \/ (Ingested(ingestion) /\ FifoPush(h, ret'.frame, h1, size))

\* the same for the history of EnhancedLivenessDetector, whose new frame is the
\* last one it holds
EnhancedHistoryStep(h, h1, size) ==
    /\ Len(h1) <= size
    /\ \/ h1 = << >>
       \/ h1 = h
       \/ ret'.op = "processFaceData" /\ FifoPush(h, h1[Len(h1)], h1, size)

\* C22: no frame history ever holds more than 30 frames, a push beyond capacity
\* evicts the oldest frame and keeps the arrival order, and a history is empty
\* right after a session start or a reset of its detector
C22_HistoryBounded ==
    [][/\ EnhancedHistoryStep(faceDataHistory, faceDataHistory', HISTORY_SIZE)
       /\ HistoryStep(ld.frameBuffer, ld'.frameBuffer, FRAME_BUFFER_SIZE,
                      "LivenessDetector.processFrame", TRUE)
       /\ HistoryStep(ml.frameHistory, ml'.frameHistory, ML_MaxFrameHistory,
                      "MLKitLivenessDetector.processFrame", ML_isActive(ml))
       /\ ret'.op \in {"startSession", "reset"} => faceDataHistory' = << >>
       /\ ret'.op \in {"LivenessDetector.startSession", "LivenessDetector.reset"}
              => ld'.frameBuffer = << >>
       /\ ret'.op \in {"MLKitLivenessDetector.startBlinkChallenge",
                       "MLKitLivenessDetector.reset"}
              => ml'.frameHistory = << >>]_vars

\* the frame buffer of LivenessDetector is full and the neutral frames that began
\* the session have all been evicted
C22_Witness ==
    /\ Len(ld.frameBuffer) = FRAME_BUFFER_SIZE
    /\ \A i \in 1..Len(ld.frameBuffer) : ld.frameBuffer[i].headPosition.yaw # 0

\* the last call returned a successful result of a LivenessDetector challenge
LDChallengePassed ==
    /\ ret.op = "LivenessDetector.processFrame"
    /\ IsResult(ret.value)
    /\ ret.value.success

\* C23: the challenges presented in one verification attempt never hold the same
\* type twice in a row: not in the list of an EnhancedLivenessDetector session, and
\* not when LivenessDetector selects the challenge that follows a passed one
C23_NoImmediateRepeat ==
    [][/\ session' # Null =>
              \A i \in 1..(Len(session'.challenges) - 1) :
                  session'.challenges[i].type # session'.challenges[i + 1].type
       /\ (LDChallengePassed /\ ret'.op = "LivenessDetector.startSession")
              => ret'.value.type # ret.value.challenge.type]_vars

\* a progress value, in thousandths, lies in [0, 1]
InUnitInterval(p) == p >= 0 /\ p <= ConfidenceOne

\* C24: getProgress() of every detector returns a value within [0, 1] in every
\* reachable state
C24_ProgressInUnitInterval ==
    /\ InUnitInterval(getProgress(session))
    /\ InUnitInterval(LD_getProgress(ld, now))
    /\ InUnitInterval(ML_getProgress(ml, now))
    /\ InUnitInterval(RL_getProgress(rl, now))

\* no operation of a detector runs in this step: only the clock may advance
NoDetectorCall ==
    /\ ret' = ret
    /\ UNCHANGED <<session, faceDataHistory, ld, ldCalls, ml, rl, faceBased>>

\* C25: getProgress() called again with no frame ingestion and no other detector
\* operation in between returns the value it returned before
C25_ProgressIdempotent ==
    [][NoDetectorCall =>
          /\ getProgress(session') = getProgress(session)
          /\ LD_getProgress(ld', now') = LD_getProgress(ld, now)
          /\ ML_getProgress(ml', now') = ML_getProgress(ml, now)
          /\ RL_getProgress(rl', now') = RL_getProgress(rl, now)]_vars

\* this step is a LivenessDetector.processFrame call that returns a result
LDReturnsResult == ldCalls' < ldCalls /\ IsResult(ret'.value)

\* C26: a LivenessDetector challenge is resolved by one result: when processFrame
\* returns a result the detector is no longer active, and the call before it did
\* not return a result for the same challenge
C26_OneResultPerChallenge ==
    [][LDReturnsResult =>
          /\ ~LD_isActive(ld')
          /\ ~(ret.op = "LivenessDetector.processFrame" /\ IsResult(ret.value))]_vars

\* C27: when frames keep being ingested and the clock keeps advancing, an active
\* session of EnhancedLivenessDetector eventually is inactive, and an inactive
\* session is either complete or failed, never both
C27_EventuallyInactive ==
    /\ isActive(session) ~> (session # Null /\ ~isActive(session))
    /\ [](session # Null /\ ~isActive(session)
              => isSessionComplete(session) # isSessionFailed(session))

\* a session passed its first two challenges and became inactive when the third
\* one ran out of time
C27_Witness ==
    /\ session # Null
    /\ ~isActive(session)
    /\ Len(session.results) = 3
    /\ session.results[1].success /\ session.results[2].success
    /\ ~session.results[3].success
    /\ isSessionFailed(session) /\ ~isSessionComplete(session)

----------------------------------------------------------------------------
(* Properties of FaceBasedLivenessDetector and detectionReducer *)

\* the action of detectionsList at index i of the reducer, counted from 0
FBActionAt(i) == IF i < Len(detectionsList) THEN detectionsList[i + 1] ELSE "undefined"

\* the reducer took a NEXT_DETECTION action in this step
FBNextDetection ==
    faceBased'.state.currentDetectionIndex = faceBased.state.currentDetectionIndex + 1

C29_ReducerInvariant ==
    LET state == faceBased.state
    IN  /\ state.currentDetectionIndex <= Len(detectionsList)
        /\ state.progressFill >= 0 /\ state.progressFill <= 100
        /\ state.processComplete <=> state.currentDetectionIndex = Len(detectionsList)

----------------------------------------------------------------------------
(* Property of the LivenessCheck screen *)

\* blink, smile, turn_left and turn_right were passed: the screen shows "completed"
AllStepsPassed == Mounted("LivenessCheck") /\ currentStep = "completed"

\* a dialog of handleLivenessComplete is shown, or the screen was left
CompletionHandled ==
    \/ dialog \in {"passed", "failed"}
    \/ Mounted("SelfieCapture")
    \/ ~Mounted("LivenessCheck")

\* C30: once all four steps of LivenessCheck have been passed, the flow eventually
\* reaches the completion handling of handleLivenessComplete that leads to
\* SelfieCapture
C30_CompletionReached == AllStepsPassed ~> CompletionHandled

====
